---- MODULE Spec2Model ----
(***************************************************************************)
(* A model of the taro job-instance execution engine:                      *)
(*   - the runner (taro/jobs/runner.py): run(), _synchronize(),            *)
(*     _state_change(), stop(), interrupt(), release();                    *)
(*   - the process execution backend (tarotools/taro/process.py);          *)
(*   - the prioritized observer registries (taro/jobs/runner.py).          *)
(* Three groups of variables, one per part; each specification moves one   *)
(* group and leaves the others at their initial value.                     *)
(***************************************************************************)
EXTENDS Integers, Sequences, FiniteSets, TLC

\* ------------------------------------------------------------------ bounds

\* release() calls made on one instance
MaxReleaseCalls == 2
\* add_warning() calls made on one instance
MaxWarnings == 3
\* rows of the history table
MaxRows == 1
\* snapshots taken of one instance and kept by their receivers
MaxSnapshots == 2
\* run() calls made on an instance that is run again
MaxReruns == 2
\* threads that (de)register an observer at the same time
MaxRegistrars == 2
\* threads that call add_warning at the same time
MaxThreads == 3
\* characters of an id pattern
MaxPatternLen == 3
\* patterns given to one id filter
MaxCriteria == 2

\* stop()/interrupt() calls made on one instance by its controlling thread
MaxStopCalls == 1
\* run() calls made on one instance (the code does not check "executed once")
MaxRuns == 1
\* capacity of the backend's output queue; stands for Queue(maxsize=2048)
QueueMaxSize == 2
\* write() calls the target makes on its redirected stdout/stderr
MaxWrites == 3

\* ------------------------------------------------------------- the runner

Inst == {"a", "b"}

\* the names of the warnings added to an instance
WarnNames == {"disk-full", "slow"}

VARIABLES
    active,       \* the instances that exist in this run of the model
    limit,        \* per instance: how many run() and stop()/interrupt() calls it receives
    outcomes,     \* the ways the backend's execute() can end in this run of the model
    cfg,          \* per instance: constructor arguments (pending_value, sync, depends_on, is_async)
    persist,      \* persistence collaborator: "off" | "ok" | "fail" (store_job raises)
    lifecycle,    \* per instance: _lifecycle, the sequence of recorded states
    stoppedOrInterrupted, \* per instance: _stopped_or_interrupted
    executing,    \* per instance: _executing
    execError,    \* per instance: _exec_error
    latchSet,     \* per instance: the latch's event (set by release())
    glock,        \* holder of the shared admission lock, or "free"
    stateLock,    \* per instance: holder of _state_lock, or "free"
    pc,           \* per instance: position of the thread inside run()
    sig,          \* per instance: local `signal` of _synchronize
    waitOn,       \* per instance: which strategy of the composite signalled ("latch" | "sync" | "none")
    newState,     \* per instance: argument new_state of the _state_change in progress
    site,         \* per instance: call site of the _state_change in progress
    jobInfo,      \* per instance: local job_info of _state_change
    runs,         \* per instance: number of run() calls made
    raised,       \* per instance: an error propagated out of run()
    spc,          \* per instance: position of the thread inside stop()/interrupt()
    stopKind,     \* per instance: "stop" | "interrupt", the call in progress
    stopCalls,    \* per instance: number of stop()/interrupt() calls made
    stopEarly,    \* per instance: a stop()/interrupt() call began before execute() was invoked
    stopFirst,    \* per instance: a stop()/interrupt() call began before the first run() call
    bStopped,     \* per instance: the backend's stop() was called
    bInterrupted, \* per instance: the backend's interrupt() was called
    execInvoked,  \* per instance: number of execute() invocations
    consulted,    \* per instance: the strategy was evaluated (set_signal was called)
    notified,     \* per instance: snapshots handed to the state observers, in order
    stored        \* per instance: snapshots handed to persistence.store_job, in order

runnerVars == <<active, limit, outcomes, cfg, persist, lifecycle, stoppedOrInterrupted, executing, execError,
                latchSet, glock, stateLock, pc, sig, waitOn, newState, site, jobInfo, runs,
                raised, spc, stopKind, stopCalls, stopEarly, stopFirst, bStopped, bInterrupted,
                execInvoked, consulted, notified, stored>>

\* --------------------------------------------- the process execution backend

VARIABLES
    pStopped,     \* ProcessExecution._stopped
    pInterrupted, \* ProcessExecution._interrupted
    pProcess,     \* ProcessExecution._process: "none" | "created" | "started"
    exitcode,     \* the child's exit code, once it has exited
    queue,        \* output_queue: the messages put and not yet got
    qClosed,      \* output_queue.close() was called
    status,       \* ProcessExecution._status
    epc,          \* position of the thread inside execute()
    result,       \* how execute() ended
    cpc,          \* position of the child process inside _run()
    planned,      \* the exit code the child ends with once _run() is left
    tbLeft,       \* the formatted exception lines not yet put
    writes,       \* number of write() calls made by the target
    kpc,          \* position of the thread inside ProcessExecution.stop()
    kCalls,       \* number of stop()/interrupted() calls made on the backend
    kRaised,      \* an error propagated out of stop()
    accepted,     \* the lines put on the queue by the child, in order
    dropped,      \* number of lines a write() could not put (queue full)
    delivered,    \* the lines handed to the output observers, in order
    poisonSent    \* the child's _QueueStop was put on the queue

procVars == <<pStopped, pInterrupted, pProcess, exitcode, queue, qClosed, status, epc, result,
              cpc, planned, tbLeft, writes, kpc, kCalls, kRaised, accepted, dropped,
              delivered, poisonSent>>

\* the observer registries of the three channels (runner.py)
VARIABLES
    self_state_observers,  \* RunnerJobInstance._state_observers: (priority, observer) pairs
    state_observers,       \* the module-level _state_observers
    self_warning_observers, \* RunnerJobInstance._warning_observers
    warning_observers,     \* the module-level _warning_observers
    self_output_observers, \* RunnerJobInstance._output_observers
    output_observers,      \* the module-level _output_observers
    regOrder,              \* the registered state observers, in the order they were registered
    channel,               \* the channel of the last fan-out, "none" before any
    fired,                 \* the pairs whose observers the last fan-out invoked, in order;
                           \* forgotten when a state registry changes
    logged,                \* the observers whose exception the last fan-out caught and logged
    propagated             \* the last fan-out let an exception reach its caller

obsVars == <<self_state_observers, state_observers, self_warning_observers, warning_observers,
             self_output_observers, output_observers, regOrder, channel, fired, logged,
             propagated>>

\* the callers of release() and add_warning(), and the job directory (runner.py)
VARIABLES
    depLookup,    \* per instance: what the last dependency lookup of run() found, "none" before any
    relLog,       \* the release() calls made on instance "a": group and return value, in order
    warnings,     \* RunnerJobInstance._warnings: occurrences per warning name
    warnCalls,    \* the names given to add_warning, in order
    warnNotified  \* what each add_warning handed to the warning observers, in order

relVars == <<relLog>>
warnVars == <<warnings, warnCalls, warnNotified>>
depVars == <<depLookup>>

\* the history table of the SQLite persistence (taro/jobs/db/sqlite.py)
VARIABLES
    history,      \* the rows of the table: the state_changed column of each
    dbStored,     \* the lifecycles of the snapshots given to store_job, in order
    dbRead        \* the lifecycles of the snapshots the last read_jobs returned, <<>> before any

dbVars == <<history, dbStored, dbRead>>

\* a fan-out to the state observers, one observer at a time (runner.py)
VARIABLES
    fanActive,    \* a fan-out is in progress
    fanIter,      \* the pairs of the two lists the fan-out in progress was given, chained
    fanPos,       \* how many pairs the loop has taken
    fanInvoked    \* the observers the fan-out has invoked, in order

fanVars == <<fanActive, fanIter, fanPos, fanInvoked>>

\* the objects behind an instance and its snapshots (runner.py, create_info)
VARIABLES
    objLifecycle, \* per object: the state sequence of a lifecycle object
    objWarnings,  \* per object: the counts of a warnings mapping
    snapshots     \* the snapshots kept by observers and persistence: the objects each
                  \* refers to, and what create_info saw when it was taken

snapVars == <<objLifecycle, objWarnings, snapshots>>

\* one use of the id filter (job.py, argsutil.py)
VARIABLES
    mPc,          \* "idle" | "input" | "parsed" | "raised" | "matched"
    mPatterns,    \* args.instances: the patterns given
    mStrategy,    \* the matching strategy given
    mJid,         \* the JobInstanceID the filter is applied to
    mCriteria,    \* the criteria parsed from the patterns
    mResult       \* what the filter answered

matchVars == <<mPc, mPatterns, mStrategy, mJid, mCriteria, mResult>>

\* threads other than the one inside run() that take a snapshot of an instance
VARIABLES
    ipc           \* per instance: position of the thread inside create_info()

infoVars == <<ipc>>

\* threads that register or deregister a state observer at the same time
VARIABLES
    rpc,          \* per thread: "idle" | "built" | "done"
    rop,          \* per thread: the call it makes (kind, observer, priority)
    rbuilt        \* per thread: the list it built and has not yet bound

regVars == <<rpc, rop, rbuilt>>

\* threads that call add_warning with the same name at the same time
VARIABLES
    wpc,          \* per thread: "idle" | "updated" | "read" | "done"
    wCounter,     \* self._warnings[name]
    wCount,       \* per thread: the count it read for its WarnEventCtx
    wDelivered    \* the counts handed to the warning observers, in order

raceVars == <<wpc, wCounter, wCount, wDelivered>>

auxVars == <<matchVars, infoVars, regVars, raceVars>>

callVars == <<relVars, warnVars, depVars, dbVars, fanVars, snapVars, auxVars>>

vars == <<runnerVars, procVars, obsVars, callVars>>

\* the objects: those of the live instance, and one per snapshot for its copies
Live == 0
Objects == 0..MaxSnapshots

\* the threads of the concurrent registrations and of the concurrent warnings
Registrars == 1..MaxRegistrars
WarnThreads == 1..MaxThreads
NoCall == [kind |-> "none", observer |-> "none", priority |-> 0]

\* ---- execution states (taro.jobs.execution.ExecutionState)

TerminalStates == {"COMPLETED", "FAILED", "ERROR", "STOPPED", "INTERRUPTED", "CANCELLED",
                   "DEPENDENCY_NOT_RUNNING"}
WaitingStates == {"PENDING"}
ExecutingStates == {"TRIGGERED", "RUNNING"}
ExecutionState == {"CREATED"} \cup WaitingStates \cup ExecutingStates \cup TerminalStates

is_terminal(s) == s \in TerminalStates
is_waiting(s) == s \in WaitingStates

Signal == {"NONE", "CONTINUE", "WAIT", "TERMINATE"}

\* ---- lifecycle (taro.jobs.execution.ExecutionLifecycleManagement)

state(lc) == lc[Len(lc)]

\* set_state returns whether a transition occurred
set_state_changes(lc, s) == s # state(lc) /\ ~is_terminal(state(lc))

set_state(lc, s) == IF set_state_changes(lc, s) THEN Append(lc, s) ELSE lc

\* ---- errors

NoError == [kind |-> "none", exec_state |-> "NONE"]
ExecutionError(k, s) == [kind |-> k, exec_state |-> s]

\* create_info(): the snapshot of an instance
create_info(i) == [state |-> state(lifecycle[i]), lifecycle |-> lifecycle[i],
                   exec_error |-> execError[i]]
NoInfo == [state |-> "NONE", lifecycle |-> <<>>, exec_error |-> NoError]

\* ---- synchronization strategies (taro.jobs.sync)

\* What a caller-supplied strategy may hand back: any signal, with any state
AnySyncStates == {"PENDING", "CANCELLED", "RUNNING"}
SyncResult(i) ==
    CASE cfg[i].sync = "NoSync" -> {[signal |-> "CONTINUE", exec_state |-> "NONE", by |-> "sync"]}
      [] cfg[i].sync = "Any"    -> {[signal |-> s, exec_state |-> e, by |-> "sync"] :
                                       s \in Signal, e \in AnySyncStates}

\* CompositeSync((latch, sync)): the first strategy that does not signal CONTINUE
CompositeResult(i) ==
    IF cfg[i].pending_value # "" /\ ~latchSet[i]
    THEN {[signal |-> "WAIT", exec_state |-> "PENDING", by |-> "latch"]}
    ELSE SyncResult(i)

\* ---- _state_change, entered from a call site

Sites == {"sync", "sync_error", "deps", "exec_ok", "exec_error", "sys_exit"}

\* (mutant) the shared lock is also taken by the call inside _synchronize
use_global_lock_always(st) == TRUE

\* use_global_lock: False only for the call inside _synchronize
use_global_lock(st) == st # "sync"

CallStateChange(i, s, st) ==
    /\ newState' = [newState EXCEPT ![i] = s]
    /\ site' = [site EXCEPT ![i] = st]
    /\ pc' = [pc EXCEPT ![i] = "sc_state_lock"]

\* where run() continues after _state_change returned normally
AfterStateChange(st) ==
    CASE st = "sync" -> "sync_after"
      [] st = "sys_exit" -> "raise"
      [] OTHER -> "return"

\* run() is left: its locals and those of _synchronize and _state_change are gone
Leave(i, error) ==
    /\ pc' = [pc EXCEPT ![i] = "done"]
    /\ raised' = [raised EXCEPT ![i] = error]
    /\ sig' = [sig EXCEPT ![i] = "NONE"]
    /\ newState' = [newState EXCEPT ![i] = "CREATED"]
    /\ site' = [site EXCEPT ![i] = "sync"]

\* _state_change returned to its call site st
Resume(i, st) ==
    IF AfterStateChange(st) = "sync_after"
    THEN /\ pc' = [pc EXCEPT ![i] = "sync_after"]
         /\ UNCHANGED <<raised, sig, newState, site>>
    ELSE Leave(i, AfterStateChange(st) = "raise")


\* ---- the run() thread

\* run() is entered (line 153); the code does not check that it runs once
RunCall(i) ==
    /\ i \in active
    /\ pc[i] \in {"idle", "done"}
    /\ runs[i] < limit[i].runs
    /\ runs' = [runs EXCEPT ![i] = @ + 1]
    /\ raised' = [raised EXCEPT ![i] = FALSE]
    /\ pc' = [pc EXCEPT ![i] = "sync_enter"]
    /\ UNCHANGED <<callVars, obsVars, procVars, active, limit, outcomes, cfg, persist, lifecycle, stoppedOrInterrupted, executing, execError,
                   latchSet, glock, stateLock, sig, waitOn, newState, site, jobInfo,
                   spc, stopKind, stopCalls, stopEarly, stopFirst, bStopped, bInterrupted,
                   execInvoked, consulted, notified, stored>>

\* (mutant) the admission cycle is entered without taking the shared lock
SynchronizeEnterUnlocked(i) ==
    /\ pc[i] = "sync_enter"
    /\ pc' = [pc EXCEPT ![i] = "sync_decide"]
    /\ UNCHANGED <<callVars, obsVars, procVars, active, limit, outcomes, cfg, persist, lifecycle, stoppedOrInterrupted, executing,
                   execError, latchSet, glock, stateLock, sig, waitOn, newState, site, jobInfo,
                   runs, raised, spc, stopKind, stopCalls, stopEarly, stopFirst, bStopped,
                   bInterrupted, execInvoked, consulted, notified, stored>>

\* `with self._global_state_locker() as state_lock:` the shared admission lock is taken
SynchronizeEnter(i) ==
    /\ pc[i] = "sync_enter"
    /\ glock = "free"
    /\ glock' = i
    /\ pc' = [pc EXCEPT ![i] = "sync_decide"]
    /\ UNCHANGED <<callVars, obsVars, procVars, active, limit, outcomes, cfg, persist, lifecycle, stoppedOrInterrupted, executing, execError,
                   latchSet, stateLock, sig, waitOn, newState, site, jobInfo, runs, raised,
                   spc, stopKind, stopCalls, stopEarly, stopFirst, bStopped, bInterrupted,
                   execInvoked, consulted, notified, stored>>

\* (mutant) the stop flag is not looked at
StopRequestedIgnored(i) == FALSE

\* `if self._stopped_or_interrupted:` (line 193)
StopRequested(i) == stoppedOrInterrupted[i]

\* (mutant) RUNNING whatever the backend is
ContinueStateRunning(i) == "RUNNING"

\* The state recorded on CONTINUE (line 203)
ContinueState(i) == IF cfg[i].is_async THEN "TRIGGERED" ELSE "RUNNING"

\* (mutant) the signal NONE is taken like any other signal
SignalAbortsNever(signal) == FALSE

\* `if signal is Signal.NONE: assert False` (lines 198-199)
SignalAborts(signal) == signal = "NONE"

\* The decision of one admission cycle: the stop flag, else the strategy's signal,
\* and the state to record. An exception leaves the `with` block (the lock is
\* released) and is caught by run(), which records ERROR.
SynchronizeDecide(i) ==
    /\ pc[i] = "sync_decide"
    /\ IF StopRequested(i)
       THEN /\ sig' = [sig EXCEPT ![i] = "TERMINATE"]
            /\ waitOn' = [waitOn EXCEPT ![i] = "none"]
            /\ CallStateChange(i, "CANCELLED", "sync")
            /\ UNCHANGED <<glock, consulted>>
       ELSE \E r \in CompositeResult(i) :
            /\ consulted' = [consulted EXCEPT ![i] = TRUE]
            /\ sig' = [sig EXCEPT ![i] = r.signal]
            /\ waitOn' = [waitOn EXCEPT ![i] = IF r.signal = "WAIT" THEN r.by ELSE "none"]
            /\ IF SignalAborts(r.signal)
               THEN \* assert False
                    /\ glock' = "free"
                    /\ CallStateChange(i, "ERROR", "sync_error")
               ELSE IF r.signal = "CONTINUE"
               THEN /\ CallStateChange(i, ContinueState(i), "sync")
                    /\ UNCHANGED glock
               ELSE IF ~(is_waiting(r.exec_state) \/ is_terminal(r.exec_state))
               THEN \* raise UnexpectedStateError
                    /\ glock' = "free"
                    /\ CallStateChange(i, "ERROR", "sync_error")
               ELSE /\ CallStateChange(i, r.exec_state, "sync")
                    /\ UNCHANGED glock
    /\ UNCHANGED <<callVars, obsVars, procVars, active, limit, outcomes, cfg, persist, lifecycle, stoppedOrInterrupted, executing, execError,
                   latchSet, stateLock, jobInfo, runs, raised,
                   spc, stopKind, stopCalls, stopEarly, stopFirst, bStopped, bInterrupted,
                   execInvoked, notified, stored>>

\* After the admission state is recorded (lines 211-218)
SynchronizeAfter(i) ==
    /\ pc[i] = "sync_after"
    /\ glock' = "free"
    /\ IF sig[i] = "WAIT"
       THEN \* wait_and_unlock(state_lock): the lock is released and the thread blocks
            /\ pc' = [pc EXCEPT ![i] = "sync_wait"]
            /\ UNCHANGED <<executing, raised, sig, newState, site>>
       ELSE IF sig[i] = "TERMINATE"
       THEN /\ Leave(i, FALSE)
            /\ UNCHANGED executing
       ELSE /\ executing' = [executing EXCEPT ![i] = TRUE]
            /\ pc' = [pc EXCEPT ![i] = "deps"]
            /\ UNCHANGED <<raised, sig, newState, site>>
    /\ UNCHANGED <<callVars, obsVars, procVars, active, limit, outcomes, cfg, persist, lifecycle, stoppedOrInterrupted, execError,
                   latchSet, stateLock, waitOn, jobInfo, runs,
                   spc, stopKind, stopCalls, stopEarly, stopFirst, bStopped, bInterrupted,
                   execInvoked, consulted, notified, stored>>

\* The wait primitive returns: the latch's event is set, or the waiting condition
\* of a caller-supplied strategy changed; the loop starts over (line 213)
SynchronizeWake(i) ==
    /\ pc[i] = "sync_wait"
    /\ waitOn[i] = "latch" => latchSet[i]
    /\ pc' = [pc EXCEPT ![i] = "sync_enter"]
    /\ waitOn' = [waitOn EXCEPT ![i] = "none"]
    /\ UNCHANGED <<callVars, obsVars, procVars, active, limit, outcomes, cfg, persist, lifecycle, stoppedOrInterrupted, executing, execError,
                   latchSet, glock, stateLock, sig, newState, site, jobInfo, runs, raised,
                   spc, stopKind, stopCalls, stopEarly, stopFirst, bStopped, bInterrupted,
                   execInvoked, consulted, notified, stored>>

\* The dependency check (lines 166-174); the job-directory lookup may fail
DependencyOutcome == {"lookup_failed", "none_running", "running"}

\* (mutant) a failed lookup is taken as "no dependency is running"
DependencyMissingOrUnknown(o) == o # "running"

\* `not any(j for j in jobs if any(j.matches(dependency) ...))` on a lookup that
\* returned (lines 169-170); a lookup that raised is caught at line 173
DependencyMissing(o) == o = "none_running"

CheckDependencies(i) ==
    /\ pc[i] = "deps"
    /\ IF ~cfg[i].depends_on
       THEN /\ pc' = [pc EXCEPT ![i] = "exec_call"]
            /\ UNCHANGED <<newState, site, depLookup>>
       ELSE \E o \in DependencyOutcome :
            /\ depLookup' = [depLookup EXCEPT ![i] = o]
            /\ IF DependencyMissing(o)
               THEN CallStateChange(i, "DEPENDENCY_NOT_RUNNING", "deps")
               ELSE /\ pc' = [pc EXCEPT ![i] = "exec_call"]
                    /\ UNCHANGED <<newState, site>>
    /\ UNCHANGED <<relVars, warnVars, snapVars, auxVars, fanVars, dbVars, obsVars, procVars, active, limit, outcomes, cfg, persist, lifecycle, stoppedOrInterrupted, executing, execError,
                   latchSet, glock, stateLock, sig, waitOn, jobInfo, runs, raised,
                   spc, stopKind, stopCalls, stopEarly, stopFirst, bStopped, bInterrupted,
                   execInvoked, consulted, notified, stored>>

\* self._execution.execute() is invoked (line 180)
ExecuteCall(i) ==
    /\ pc[i] = "exec_call"
    /\ execInvoked' = [execInvoked EXCEPT ![i] = @ + 1]
    /\ pc' = [pc EXCEPT ![i] = "exec_run"]
    /\ UNCHANGED <<callVars, obsVars, procVars, active, limit, outcomes, cfg, persist, lifecycle, stoppedOrInterrupted, executing, execError,
                   latchSet, glock, stateLock, sig, waitOn, newState, site, jobInfo, runs, raised,
                   spc, stopKind, stopCalls, stopEarly, stopFirst, bStopped, bInterrupted,
                   consulted, notified, stored>>

\* The ways execute() can end
ReturnedStates == {"COMPLETED", "STOPPED", "INTERRUPTED"}
ErrorStates == {"FAILED", "ERROR"}
ExecuteOutcome ==
    {[how |-> "return", exec_state |-> s] : s \in ReturnedStates}
    \cup {[how |-> "execution_error", exec_state |-> s] : s \in ErrorStates}
    \cup {[how |-> "exception", exec_state |-> "ERROR"]}
    \cup {[how |-> "system_exit", exec_state |-> s] : s \in {"COMPLETED", "FAILED"}}

\* execute() ends and its outcome is mapped to a state (lines 180-188); an error
\* is stored in _exec_error first (line 226)
ExecuteEnd(i) ==
    /\ pc[i] = "exec_run"
    /\ \E o \in outcomes :
        CASE o.how = "return" ->
                /\ CallStateChange(i, o.exec_state, "exec_ok")
                /\ UNCHANGED execError
          [] o.how = "execution_error" ->
                /\ execError' = [execError EXCEPT ![i] = ExecutionError("expected", o.exec_state)]
                /\ CallStateChange(i, o.exec_state, "exec_error")
          [] o.how = "exception" ->
                /\ execError' = [execError EXCEPT ![i] = ExecutionError("unexpected", "ERROR")]
                /\ CallStateChange(i, "ERROR", "exec_error")
          [] o.how = "system_exit" ->
                /\ CallStateChange(i, o.exec_state, "sys_exit")
                /\ UNCHANGED execError
    /\ UNCHANGED <<callVars, obsVars, procVars, active, limit, outcomes, cfg, persist, lifecycle, stoppedOrInterrupted, executing,
                   latchSet, glock, stateLock, sig, waitOn, jobInfo, runs, raised,
                   spc, stopKind, stopCalls, stopEarly, stopFirst, bStopped, bInterrupted,
                   execInvoked, consulted, notified, stored>>

\* ---- _state_change (lines 224-248), step by step

\* `with self._state_lock:` (line 236)
StateChangeLock(i) ==
    /\ pc[i] = "sc_state_lock"
    /\ stateLock[i] = "free"
    /\ stateLock' = [stateLock EXCEPT ![i] = "run"]
    /\ pc' = [pc EXCEPT ![i] = IF use_global_lock(site[i]) THEN "sc_global_lock" ELSE "sc_set"]
    /\ UNCHANGED <<callVars, obsVars, procVars, active, limit, outcomes, cfg, persist, lifecycle, stoppedOrInterrupted, executing, execError,
                   latchSet, glock, sig, waitOn, newState, site, jobInfo, runs, raised,
                   spc, stopKind, stopCalls, stopEarly, stopFirst, bStopped, bInterrupted,
                   execInvoked, consulted, notified, stored>>

\* `with global_state_lock:` (line 237), when use_global_lock
StateChangeGlobalLock(i) ==
    /\ pc[i] = "sc_global_lock"
    /\ glock = "free"
    /\ glock' = i
    /\ pc' = [pc EXCEPT ![i] = "sc_set"]
    /\ UNCHANGED <<callVars, obsVars, procVars, active, limit, outcomes, cfg, persist, lifecycle, stoppedOrInterrupted, executing, execError,
                   latchSet, stateLock, sig, waitOn, newState, site, jobInfo, runs, raised,
                   spc, stopKind, stopCalls, stopEarly, stopFirst, bStopped, bInterrupted,
                   execInvoked, consulted, notified, stored>>

\* (mutant) the state is appended whatever set_state would answer
RecordedAlways(lc, s) == Append(lc, s)

\* The lifecycle after `self._lifecycle.set_state(new_state)` (line 239)
Recorded(lc, s) == set_state(lc, s)

\* (mutant) the fan-out also happens when nothing changed
AfterSetAlwaysNotify(changed, s, st) ==
    IF is_terminal(s) /\ persist # "off" /\ changed THEN "sc_store"
    ELSE "sc_notify"

\* (mutant) the fan-out comes without the persistence hand-off
AfterSetNoStore(changed, s, st) ==
    IF ~changed THEN AfterStateChange(st)
    ELSE "sc_notify"

\* (mutant) every snapshot is handed to persistence, terminal or not
AfterSetStoreAll(changed, s, st) ==
    IF ~changed THEN AfterStateChange(st)
    ELSE IF persist # "off" THEN "sc_store"
    ELSE "sc_notify"

\* The position after the locked block: nothing changed, or persistence, or fan-out
AfterSet(changed, s, st) ==
    IF ~changed THEN AfterStateChange(st)
    ELSE IF is_terminal(s) /\ persist # "off" THEN "sc_store"
    ELSE "sc_notify"

\* Lines 238-243 under the lock(s), which are released on leaving the blocks
StateChangeSet(i) ==
    /\ pc[i] = "sc_set"
    /\ LET lc == Recorded(lifecycle[i], newState[i])
           changed == lc # lifecycle[i]
           next == AfterSet(changed, newState[i], site[i])
       IN /\ lifecycle' = [lifecycle EXCEPT ![i] = lc]
          /\ jobInfo' = [jobInfo EXCEPT ![i] =
                            IF changed
                            THEN [state |-> state(lc), lifecycle |-> lc, exec_error |-> execError[i]]
                            ELSE NoInfo]
          /\ IF next \in {"sc_store", "sc_notify"}
             THEN /\ pc' = [pc EXCEPT ![i] = next]
                  /\ UNCHANGED <<raised, sig, newState, site>>
             ELSE Resume(i, site[i])
    /\ stateLock' = [stateLock EXCEPT ![i] = "free"]
    /\ glock' = IF use_global_lock(site[i]) THEN "free" ELSE glock
    /\ UNCHANGED <<callVars, obsVars, procVars, active, limit, outcomes, cfg, persist, stoppedOrInterrupted, executing, execError,
                   latchSet, waitOn, runs,
                   spc, stopKind, stopCalls, stopEarly, stopFirst, bStopped, bInterrupted,
                   execInvoked, consulted, notified, stored>>

\* persistence.store_job(job_info) (lines 246-247). When it raises, the error leaves
\* _state_change before the fan-out and goes where the call site sends it.
StateChangeStore(i) ==
    /\ pc[i] = "sc_store"
    /\ stored' = [stored EXCEPT ![i] = Append(@, [info |-> jobInfo[i], ok |-> persist = "ok"])]
    /\ IF persist = "ok"
       THEN /\ pc' = [pc EXCEPT ![i] = "sc_notify"]
            /\ UNCHANGED <<glock, newState, site, execError, raised, jobInfo, sig>>
       ELSE /\ jobInfo' = [jobInfo EXCEPT ![i] = NoInfo]
            /\ CASE site[i] = "sync" ->
                      \* out of the `with` block, caught at line 158
                      /\ glock' = "free"
                      /\ CallStateChange(i, "ERROR", "sync_error")
                      /\ UNCHANGED <<execError, raised, sig>>
                 [] site[i] = "deps" ->
                      \* caught at line 173: execution goes on
                      /\ pc' = [pc EXCEPT ![i] = "exec_call"]
                      /\ UNCHANGED <<glock, newState, site, execError, raised, sig>>
                 [] site[i] = "exec_ok" ->
                      \* caught at line 182 and wrapped as an unexpected error
                      /\ execError' = [execError EXCEPT ![i] = ExecutionError("unexpected", "ERROR")]
                      /\ CallStateChange(i, "ERROR", "exec_error")
                      /\ UNCHANGED <<glock, raised, sig>>
                 [] OTHER ->
                      \* lines 160, 184, 187: nothing catches it inside run()
                      /\ Leave(i, TRUE)
                      /\ UNCHANGED <<glock, execError>>
    /\ UNCHANGED <<callVars, obsVars, procVars, active, limit, outcomes, cfg, persist, lifecycle, stoppedOrInterrupted, executing,
                   latchSet, stateLock, waitOn, runs,
                   spc, stopKind, stopCalls, stopEarly, stopFirst, bStopped, bInterrupted,
                   execInvoked, consulted, notified>>

\* self._notify_state_observers(job_info) (line 248); observers' errors are caught
StateChangeNotify(i) ==
    /\ pc[i] = "sc_notify"
    /\ notified' = [notified EXCEPT ![i] = Append(@, jobInfo[i])]
    /\ jobInfo' = [jobInfo EXCEPT ![i] = NoInfo]
    /\ Resume(i, site[i])
    /\ UNCHANGED <<callVars, obsVars, procVars, active, limit, outcomes, cfg, persist, lifecycle, stoppedOrInterrupted, executing, execError,
                   latchSet, glock, stateLock, waitOn, runs,
                   spc, stopKind, stopCalls, stopEarly, stopFirst, bStopped, bInterrupted,
                   execInvoked, consulted, stored>>

\* ---- stop() and interrupt() (lines 124-146), called from another thread

\* self._stopped_or_interrupted = True
StopCall(i, kind) ==
    /\ i \in active
    /\ spc[i] = "idle"
    /\ stopCalls[i] < limit[i].stops
    /\ stopCalls' = [stopCalls EXCEPT ![i] = @ + 1]
    /\ stopKind' = [stopKind EXCEPT ![i] = kind]
    /\ stoppedOrInterrupted' = [stoppedOrInterrupted EXCEPT ![i] = TRUE]
    /\ stopEarly' = [stopEarly EXCEPT ![i] = @ \/ execInvoked[i] = 0]
    /\ stopFirst' = [stopFirst EXCEPT ![i] = @ \/ runs[i] = 0]
    /\ spc' = [spc EXCEPT ![i] = "release"]
    /\ UNCHANGED <<callVars, obsVars, procVars, active, limit, outcomes, cfg, persist, lifecycle, executing, execError,
                   latchSet, glock, stateLock, pc, sig, waitOn, newState, site, jobInfo, runs,
                   raised, bStopped, bInterrupted, execInvoked, consulted, notified, stored>>

\* (mutant) the release does not reach the latch
SyncReleaseLost(i, set) == set

\* self._sync.release() on CompositeSync((latch, sync)): the latch's event is set;
\* without a pending value there is no latch
SyncRelease(i, set) == IF cfg[i].pending_value # "" THEN TRUE ELSE set

\* self._sync.release()
StopRelease(i) ==
    /\ spc[i] = "release"
    /\ latchSet' = [latchSet EXCEPT ![i] = SyncRelease(i, @)]
    /\ spc' = [spc EXCEPT ![i] = "forward"]
    /\ UNCHANGED <<callVars, obsVars, procVars, active, limit, outcomes, cfg, persist, lifecycle, stoppedOrInterrupted, executing, execError,
                   glock, stateLock, pc, sig, waitOn, newState, site, jobInfo, runs,
                   raised, stopKind, stopCalls, stopEarly, stopFirst, bStopped, bInterrupted,
                   execInvoked, consulted, notified, stored>>

\* Whether stop()/interrupt() forwards the request to the backend (lines 133, 145)
Forwards(i) == executing[i]

\* if self._executing: self._execution.stop() / .interrupt()
StopForward(i) ==
    /\ spc[i] = "forward"
    /\ bStopped' = [bStopped EXCEPT ![i] = @ \/ (Forwards(i) /\ stopKind[i] = "stop")]
    /\ bInterrupted' = [bInterrupted EXCEPT ![i] = @ \/ (Forwards(i) /\ stopKind[i] = "interrupt")]
    /\ spc' = [spc EXCEPT ![i] = "idle"]
    /\ stopKind' = [stopKind EXCEPT ![i] = "stop"]
    /\ UNCHANGED <<callVars, obsVars, procVars, active, limit, outcomes, cfg, persist, lifecycle, stoppedOrInterrupted, executing, execError,
                   latchSet, glock, stateLock, pc, sig, waitOn, newState, site, jobInfo, runs,
                   raised, stopCalls, stopEarly, stopFirst,
                   execInvoked, consulted, notified, stored>>

\* ---- release(pending_value) (lines 117-122)

PendingGroups == {"", "G", "H"}

\* (mutant) any group releases an instance that has a pending value
ReleaseMatchesAny(i, group) == cfg[i].pending_value # ""

\* (mutant) only a group that is given and equal releases
ReleaseMatchesGiven(i, group) == cfg[i].pending_value # "" /\ group = cfg[i].pending_value

ReleaseMatches(i, group) ==
    ~(cfg[i].pending_value = "" \/ (group # "" /\ group # cfg[i].pending_value))

Release(i, group) ==
    /\ i \in active
    /\ pc[i] = "sync_wait"
    /\ ~latchSet[i]
    /\ ReleaseMatches(i, group)
    /\ latchSet' = [latchSet EXCEPT ![i] = TRUE]
    /\ UNCHANGED <<callVars, obsVars, procVars, active, limit, outcomes, cfg, persist, lifecycle, stoppedOrInterrupted, executing, execError,
                   glock, stateLock, pc, sig, waitOn, newState, site, jobInfo, runs,
                   raised, spc, stopKind, stopCalls, stopEarly, stopFirst, bStopped, bInterrupted,
                   execInvoked, consulted, notified, stored>>

\* release(pending_value) called at any moment, with its return value
ReleaseCall(i, group) ==
    /\ i \in active
    /\ Len(relLog) < MaxReleaseCalls
    /\ relLog' = Append(relLog, [group |-> group, returned |-> ReleaseMatches(i, group)])
    /\ latchSet' = [latchSet EXCEPT ![i] = @ \/ ReleaseMatches(i, group)]
    /\ UNCHANGED <<warnVars, depVars, snapVars, auxVars, fanVars, dbVars, obsVars, procVars, active, limit, outcomes, cfg, persist, lifecycle,
                   stoppedOrInterrupted, executing, execError,
                   glock, stateLock, pc, sig, waitOn, newState, site, jobInfo, runs,
                   raised, spc, stopKind, stopCalls, stopEarly, stopFirst, bStopped, bInterrupted,
                   execInvoked, consulted, notified, stored>>

\* ---- initial states: the instances after construction (lines 45-68)

Config == [pending_value : {"", "G"}, sync : {"NoSync", "Any"},
           depends_on : BOOLEAN, is_async : BOOLEAN]

\* The strategies shipped with the runner, on a synchronous backend without dependencies
PlainConfig == {c \in Config : c.sync = "NoSync" /\ ~c.depends_on /\ ~c.is_async}

CreatedInfo == [state |-> "CREATED", lifecycle |-> <<"CREATED">>, exec_error |-> NoError]

\* No fan-out has happened
InitFanOut ==
    /\ channel = "none"
    /\ fired = <<>>
    /\ logged = <<>>
    /\ propagated = FALSE

\* No release() or add_warning() call was made (line 63: Counter())
InitCallsBase ==
    /\ rpc = [t \in Registrars |-> "idle"]
    /\ rop = [t \in Registrars |-> NoCall]
    /\ rbuilt = [t \in Registrars |-> <<>>]
    /\ wpc = [t \in WarnThreads |-> "idle"]
    /\ wCounter = 0
    /\ wCount = [t \in WarnThreads |-> 0]
    /\ wDelivered = <<>>
    /\ ipc = [i \in Inst |-> "idle"]
    /\ objLifecycle = [o \in Objects |-> IF o = Live THEN <<"CREATED">> ELSE <<>>]
    /\ objWarnings = [o \in Objects |-> [n \in WarnNames |-> 0]]
    /\ snapshots = <<>>
    /\ fanActive = FALSE
    /\ fanIter = <<>>
    /\ fanPos = 0
    /\ fanInvoked = <<>>
    /\ history = <<>>
    /\ dbStored = <<>>
    /\ dbRead = <<>>
    /\ depLookup = [i \in Inst |-> "none"]
    /\ relLog = <<>>
    /\ warnings = [n \in WarnNames |-> 0]
    /\ warnCalls = <<>>
    /\ warnNotified = <<>>

\* ... and no id filter is in use
InitCalls ==
    /\ mPc = "idle"
    /\ mPatterns = <<>>
    /\ mStrategy = "EXACT"
    /\ mJid = [job_id |-> <<>>, instance_id |-> <<>>]
    /\ mCriteria = <<>>
    /\ mResult = FALSE
    /\ InitCallsBase

\* No observer is registered anywhere
InitObservers ==
    /\ self_state_observers = <<>>
    /\ state_observers = <<>>
    /\ self_warning_observers = <<>>
    /\ warning_observers = <<>>
    /\ self_output_observers = <<>>
    /\ output_observers = <<>>
    /\ regOrder = <<>>
    /\ InitFanOut

\* The backend object after construction (process.py lines 24-33)
InitBackend ==
    /\ pStopped = FALSE
    /\ pInterrupted = FALSE
    /\ pProcess = "none"
    /\ exitcode = 0
    /\ queue = <<>>
    /\ qClosed = FALSE
    /\ status = <<>>
    /\ epc = "idle"
    /\ result = [kind |-> "none"]
    /\ cpc = "none"
    /\ planned = 0
    /\ tbLeft = <<>>
    /\ writes = 0
    /\ kpc = "idle"
    /\ kCalls = 0
    /\ kRaised = FALSE
    /\ accepted = <<>>
    /\ dropped = 0
    /\ delivered = <<>>
    /\ poisonSent = FALSE

\* The instances after construction (runner.py lines 45-68)
InitInstances(act, configs, persists, limits, outs) ==
    /\ active = act
    /\ limit = limits
    /\ outcomes = outs
    /\ cfg \in [Inst -> configs]
    /\ \A i \in Inst \ act : cfg[i] = CHOOSE c \in configs : TRUE
    /\ persist \in persists
    /\ lifecycle = [i \in Inst |-> <<"CREATED">>]
    /\ stoppedOrInterrupted = [i \in Inst |-> FALSE]
    /\ executing = [i \in Inst |-> FALSE]
    /\ execError = [i \in Inst |-> NoError]
    /\ latchSet = [i \in Inst |-> FALSE]
    /\ glock = "free"
    /\ stateLock = [i \in Inst |-> "free"]
    /\ pc = [i \in Inst |-> "idle"]
    /\ sig = [i \in Inst |-> "NONE"]
    /\ waitOn = [i \in Inst |-> "none"]
    /\ newState = [i \in Inst |-> "CREATED"]
    /\ site = [i \in Inst |-> "sync"]
    /\ jobInfo = [i \in Inst |-> NoInfo]
    /\ runs = [i \in Inst |-> 0]
    /\ raised = [i \in Inst |-> FALSE]
    /\ spc = [i \in Inst |-> "idle"]
    /\ stopKind = [i \in Inst |-> "stop"]
    /\ stopCalls = [i \in Inst |-> 0]
    /\ stopEarly = [i \in Inst |-> FALSE]
    /\ stopFirst = [i \in Inst |-> FALSE]
    /\ bStopped = [i \in Inst |-> FALSE]
    /\ bInterrupted = [i \in Inst |-> FALSE]
    /\ execInvoked = [i \in Inst |-> 0]
    /\ consulted = [i \in Inst |-> FALSE]
    /\ notified = [i \in Inst |-> <<CreatedInfo>>]
    /\ stored = [i \in Inst |-> <<>>]

InitRunner(act, configs, persists, limits, outs) ==
    /\ InitBackend
    /\ InitCalls
    /\ InitObservers
    /\ InitInstances(act, configs, persists, limits, outs)

NextRunner ==
    \E i \in Inst :
        \/ RunCall(i)
        \/ SynchronizeEnter(i)
        \/ SynchronizeDecide(i)
        \/ SynchronizeAfter(i)
        \/ SynchronizeWake(i)
        \/ CheckDependencies(i)
        \/ ExecuteCall(i)
        \/ ExecuteEnd(i)
        \/ StateChangeLock(i)
        \/ StateChangeGlobalLock(i)
        \/ StateChangeSet(i)
        \/ StateChangeStore(i)
        \/ StateChangeNotify(i)
        \/ \E kind \in {"stop", "interrupt"} : StopCall(i, kind)
        \/ StopRelease(i)
        \/ StopForward(i)
        \/ \E group \in PendingGroups : Release(i, group)

\* One instance with any configuration, its run() thread and its controlling thread
Init == InitRunner({"a"}, Config, {"off", "ok", "fail"},
                   [i \in Inst |-> [runs |-> MaxRuns, stops |-> MaxStopCalls]], ExecuteOutcome)
Spec == Init /\ [][NextRunner]_vars

\* Two instances on one shared admission lock; "a" has a controlling thread
SharedOutcome == {o \in ExecuteOutcome : o.exec_state \in {"COMPLETED", "ERROR"} /\ o.how # "system_exit"}
InitShared == InitRunner(Inst, PlainConfig, {"ok"},
                         [i \in Inst |-> [runs |-> MaxRuns,
                                          stops |-> IF i = "a" THEN MaxStopCalls ELSE 0]],
                         SharedOutcome)
SpecShared == InitShared /\ [][NextRunner]_vars

\* ---- create_info() called by other threads (lines 94-97), as add_warning and
\* ---- output_update do (lines 151, 279)

\* `with self._state_lock:` is entered (line 95)
CreateInfoLock(i) ==
    /\ i \in active
    /\ ipc[i] = "idle"
    /\ stateLock[i] = "free"
    /\ stateLock' = [stateLock EXCEPT ![i] = "info"]
    /\ ipc' = [ipc EXCEPT ![i] = "locked"]
    /\ UNCHANGED <<relVars, warnVars, depVars, dbVars, fanVars, snapVars, matchVars, regVars, raceVars, obsVars, procVars,
                   active, limit, outcomes, cfg, persist, lifecycle, stoppedOrInterrupted,
                   executing, execError, latchSet, glock, pc, sig, waitOn, newState, site,
                   jobInfo, runs, raised, spc, stopKind, stopCalls, stopEarly, stopFirst,
                   bStopped, bInterrupted, execInvoked, consulted, notified, stored>>

\* the JobInfo is built and returned; the lock is released (lines 96-97)
CreateInfoReturn(i) ==
    /\ ipc[i] = "locked"
    /\ stateLock' = [stateLock EXCEPT ![i] = "free"]
    /\ ipc' = [ipc EXCEPT ![i] = "idle"]
    /\ UNCHANGED <<relVars, warnVars, depVars, dbVars, fanVars, snapVars, matchVars, regVars, raceVars, obsVars, procVars,
                   active, limit, outcomes, cfg, persist, lifecycle, stoppedOrInterrupted,
                   executing, execError, latchSet, glock, pc, sig, waitOn, newState, site,
                   jobInfo, runs, raised, spc, stopKind, stopCalls, stopEarly, stopFirst,
                   bStopped, bInterrupted, execInvoked, consulted, notified, stored>>

\* Two instances on one shared admission lock, each with a thread inside run()
\* and other threads calling create_info(), stop(), interrupt() and release()
NextLocks ==
    \/ NextRunner
    \/ \E i \in Inst : CreateInfoLock(i) \/ CreateInfoReturn(i)

\* the backend's execute() returns: how it ends does not touch a lock
LockOutcome == {o \in ExecuteOutcome : o.how = "return" /\ o.exec_state = "COMPLETED"}
InitLocks == InitRunner(Inst, PlainConfig, {"ok"},
                        [i \in Inst |-> [runs |-> MaxRuns,
                                         stops |-> IF i = "a" THEN MaxStopCalls ELSE 0]],
                        LockOutcome)

SpecLocks == InitLocks /\ [][NextLocks]_vars

\* One instance with every way execute() can end, and other threads calling
\* create_info() on it
InitInfo == InitRunner({"a"}, PlainConfig, {"ok"},
                       [i \in Inst |-> [runs |-> MaxRuns, stops |-> MaxStopCalls]],
                       ExecuteOutcome)
SpecInfo == InitInfo /\ [][NextLocks]_vars

\* ---- one instance with the shipped strategy whose run() is called again

InitRerun == InitRunner({"a"}, PlainConfig, {"ok"},
                        [i \in Inst |-> [runs |-> MaxReruns, stops |-> MaxStopCalls]],
                        SharedOutcome)
SpecRerun == InitRerun /\ [][NextRunner]_vars

\* ---- one instance created with pending value "G", released by group

LatchConfig == {c \in PlainConfig : c.pending_value = "G"}

\* the steps of the thread inside run()
RunThread(i) ==
    \/ SynchronizeEnter(i)
    \/ SynchronizeDecide(i)
    \/ SynchronizeAfter(i)
    \/ SynchronizeWake(i)
    \/ CheckDependencies(i)
    \/ ExecuteCall(i)
    \/ ExecuteEnd(i)
    \/ StateChangeLock(i)
    \/ StateChangeGlobalLock(i)
    \/ StateChangeSet(i)
    \/ StateChangeStore(i)
    \/ StateChangeNotify(i)

NextLatch ==
    \E i \in Inst :
        \/ RunCall(i)
        \/ RunThread(i)
        \/ \E kind \in {"stop", "interrupt"} : StopCall(i, kind)
        \/ StopRelease(i)
        \/ StopForward(i)
        \/ \E group \in PendingGroups : ReleaseCall(i, group)

InitLatch == InitRunner({"a"}, LatchConfig, {"ok"},
                        [i \in Inst |-> [runs |-> MaxRuns, stops |-> MaxStopCalls]],
                        SharedOutcome)

\* The thread that called run() keeps running: it is scheduled whenever it can step
SpecLatch == InitLatch /\ [][NextLatch]_vars /\ WF_vars(RunThread("a"))

\* ---- one instance, with or without a pending value, and release() calls

InitRelease == InitRunner({"a"}, PlainConfig, {"ok"},
                          [i \in Inst |-> [runs |-> MaxRuns, stops |-> MaxStopCalls]],
                          SharedOutcome)
SpecRelease == InitRelease /\ [][NextLatch]_vars

\* ---- one instance with a pending value, stopped while it waits; persistence
\* ---- disabled, working or failing

\* the steps of the thread inside stop() or interrupt()
StopThread(i) == StopRelease(i) \/ StopForward(i)

InitLatchStop == InitRunner({"a"}, LatchConfig, {"off", "ok", "fail"},
                            [i \in Inst |-> [runs |-> MaxRuns, stops |-> MaxStopCalls]],
                            SharedOutcome)

NextLatchStop ==
    \E i \in Inst :
        \/ RunCall(i)
        \/ RunThread(i)
        \/ \E kind \in {"stop", "interrupt"} : StopCall(i, kind)
        \/ StopThread(i)
        \/ \E group \in PendingGroups : Release(i, group)

\* Both threads keep running: the one inside run() and the one inside stop()
SpecLatchStop ==
    InitLatchStop /\ [][NextLatchStop]_vars /\ WF_vars(RunThread("a")) /\ WF_vars(StopThread("a"))

\* ------------------------------------------- the process execution backend
\* tarotools/taro/process.py

SIGINT == 2
SIGTERM == 15

\* a text is a sequence of characters
Whitespace == {" ", "\n"}
\* the write() calls of the target: print() on stdout (the text, then the line
\* end), a line on stderr
WriteCalls == {[text |-> <<"\n">>, is_err |-> FALSE], [text |-> <<"x">>, is_err |-> FALSE],
               [text |-> <<"y", "\n">>, is_err |-> TRUE]}

\* str.rstrip()
RECURSIVE rstrip(_)
rstrip(text) ==
    IF text = <<>> THEN <<>>
    ELSE IF text[Len(text)] \in Whitespace THEN rstrip(SubSeq(text, 1, Len(text) - 1))
    ELSE text

\* the messages of output_queue: (text, is_err) and the poison object
Message(text, is_err) == [stop |-> FALSE, text |-> text, is_err |-> is_err]
QueueStop == [stop |-> TRUE, text |-> <<>>, is_err |-> FALSE]

\* traceback.format_exception(...): the lines of a formatted exception
TracebackLines == << <<"T", "\n">>, <<"E", "\n">> >>

\* Queue.put_nowait raises Full when maxsize messages are waiting
Full(q) == Len(q) >= QueueMaxSize

\* (mutant) a full queue makes room by losing its oldest message
PutNowaitEvicting(q, m) == IF Full(q) THEN Append(Tail(q), m) ELSE Append(q, m)

\* The queue after `try: put_nowait(m) except Full: log.warning(...)` (lines 136-140)
PutNowait(q, m) == IF Full(q) THEN q ELSE Append(q, m)

\* ---- execute() (lines 35-54)

\* `if not self._stopped and not self._interrupted:` then Process(target=self._run)
ExecuteBegin ==
    /\ epc = "idle"
    /\ IF ~pStopped /\ ~pInterrupted
       THEN /\ pProcess' = "created"
            /\ epc' = "start"
       ELSE /\ epc' = "map"
            /\ UNCHANGED pProcess
    /\ UNCHANGED <<callVars, obsVars, runnerVars, pStopped, pInterrupted, exitcode, queue, qClosed, status, result,
                   cpc, planned, tbLeft, writes, kpc, kCalls, kRaised, accepted, dropped,
                   delivered, poisonSent>>

\* self._process.start()
ProcessStart ==
    /\ epc = "start"
    /\ pProcess' = "started"
    /\ cpc' = "running"
    /\ epc' = "pump"
    /\ UNCHANGED <<callVars, obsVars, runnerVars, pStopped, pInterrupted, exitcode, queue, qClosed, status, result,
                   planned, tbLeft, writes, kpc, kCalls, kRaised, accepted, dropped,
                   delivered, poisonSent>>

\* One turn of the loop of _read_output (lines 117-123)
ReadOutput ==
    /\ epc = "pump"
    /\ queue # <<>>
    /\ queue' = Tail(queue)
    /\ IF Head(queue).stop
       THEN /\ epc' = "join"
            /\ UNCHANGED <<status, delivered>>
       ELSE /\ status' = Head(queue).text
            /\ delivered' = Append(delivered, Head(queue))
            /\ UNCHANGED epc
    /\ UNCHANGED <<callVars, obsVars, runnerVars, pStopped, pInterrupted, pProcess, exitcode, qClosed, result,
                   cpc, planned, tbLeft, writes, kpc, kCalls, kRaised, accepted, dropped,
                   poisonSent>>

\* self._process.join(), then output_queue.close()
Join ==
    /\ epc = "join"
    /\ cpc = "exited"
    /\ qClosed' = TRUE
    /\ epc' = "map"
    /\ UNCHANGED <<callVars, obsVars, runnerVars, pStopped, pInterrupted, pProcess, exitcode, queue, status, result,
                   cpc, planned, tbLeft, writes, kpc, kCalls, kRaised, accepted, dropped,
                   delivered, poisonSent>>

Returned(v, code, stopped, interrupted) ==
    [kind |-> "return", value |-> v, code |-> code, stopped |-> stopped, interrupted |-> interrupted]
Raised(e, code, stopped, interrupted) ==
    [kind |-> "raise", value |-> e, code |-> code, stopped |-> stopped, interrupted |-> interrupted]

\* (mutant) the interrupt flag is not looked at
ExecuteResultNoFlag(process, code, stopped, interrupted) ==
    IF process # "none" /\ code = 0 THEN Returned("DONE", code, stopped, interrupted)
    ELSE IF process = "none" THEN Raised("AttributeError", 0, stopped, interrupted)
    ELSE IF code = -SIGINT THEN Returned("INTERRUPTED", code, stopped, interrupted)
    ELSE IF stopped \/ code < 0 THEN Returned("STOPPED", code, stopped, interrupted)
    ELSE Raised("ExecutionException", code, stopped, interrupted)

\* Lines 46-54: the outcome of execute() from the process, its exit code and the
\* flags. `self._process.exitcode` on a process that was never created (None)
\* raises AttributeError.
ExecuteResult(process, code, stopped, interrupted) ==
    IF process # "none" /\ code = 0 THEN Returned("DONE", code, stopped, interrupted)
    ELSE IF interrupted THEN Returned("INTERRUPTED", code, stopped, interrupted)
    ELSE IF process = "none" THEN Raised("AttributeError", 0, stopped, interrupted)
    ELSE IF code = -SIGINT THEN Returned("INTERRUPTED", code, stopped, interrupted)
    ELSE IF stopped \/ code < 0 THEN Returned("STOPPED", code, stopped, interrupted)
    ELSE Raised("ExecutionException", code, stopped, interrupted)

ExecuteMap ==
    /\ epc = "map"
    /\ result' = ExecuteResult(pProcess, exitcode, pStopped, pInterrupted)
    /\ epc' = "done"
    /\ UNCHANGED <<callVars, obsVars, runnerVars, pStopped, pInterrupted, pProcess, exitcode, queue, qClosed, status,
                   cpc, planned, tbLeft, writes, kpc, kCalls, kRaised, accepted, dropped,
                   delivered, poisonSent>>

\* ---- the child process: _run() (lines 56-65) and _CapturingWriter.write (133-141)

\* The target writes `text` to its stdout (is_err = FALSE) or stderr (TRUE)
Write(text, is_err) ==
    /\ cpc = "running"
    /\ writes < MaxWrites
    /\ writes' = writes + 1
    /\ LET text_s == rstrip(text)
           m == Message(text_s, is_err)
       IN IF text_s # <<>>
          THEN /\ queue' = PutNowait(queue, m)
               /\ accepted' = IF Full(queue) THEN accepted ELSE Append(accepted, m)
               /\ dropped' = IF Full(queue) THEN dropped + 1 ELSE dropped
          ELSE UNCHANGED <<queue, accepted, dropped>>
    /\ UNCHANGED <<callVars, obsVars, runnerVars, pStopped, pInterrupted, pProcess, exitcode, qClosed, status, epc,
                   result, cpc, planned, tbLeft, kpc, kCalls, kRaised, delivered, poisonSent>>

\* The ways the target ends, with the exit code the child then has: it returns,
\* raises an exception, or raises SystemExit(3)
TargetEnds == {[how |-> "return", code |-> 0], [how |-> "raise", code |-> 1],
               [how |-> "raise", code |-> 3]}

TargetEnd(e) ==
    /\ cpc = "running"
    /\ planned' = e.code
    /\ IF e.how = "return"
       THEN /\ cpc' = "finally"
            /\ UNCHANGED tbLeft
       ELSE /\ cpc' = "traceback"
            /\ tbLeft' = TracebackLines
    /\ UNCHANGED <<callVars, obsVars, runnerVars, pStopped, pInterrupted, pProcess, exitcode, queue, qClosed, status,
                   epc, result, writes, kpc, kCalls, kRaised, accepted, dropped,
                   delivered, poisonSent>>

\* `self.output_queue.put_nowait((line, True))` in the except block: Full is not
\* caught there, it replaces the target's exception
PutTraceback ==
    /\ cpc = "traceback"
    /\ IF Full(queue)
       THEN /\ cpc' = "finally"
            /\ planned' = 1
            /\ tbLeft' = <<>>
            /\ UNCHANGED <<queue, accepted>>
       ELSE /\ queue' = Append(queue, Message(Head(tbLeft), TRUE))
            /\ accepted' = Append(accepted, Message(Head(tbLeft), TRUE))
            /\ tbLeft' = Tail(tbLeft)
            /\ cpc' = IF Tail(tbLeft) = <<>> THEN "finally" ELSE "traceback"
            /\ UNCHANGED planned
    /\ UNCHANGED <<callVars, obsVars, runnerVars, pStopped, pInterrupted, pProcess, exitcode, qClosed, status,
                   epc, result, writes, kpc, kCalls, kRaised, dropped, delivered, poisonSent>>

\* Whether `finally: self.output_queue.put_nowait((_QueueStop(), False))` puts the poison
PoisonPut(q) == ~Full(q)

\* The finally block of _run, then the child exits
ChildExit ==
    /\ cpc = "finally"
    /\ cpc' = "exited"
    /\ IF PoisonPut(queue)
       THEN /\ queue' = Append(queue, QueueStop)
            /\ poisonSent' = TRUE
            /\ exitcode' = planned
       ELSE \* queue.Full leaves _run: an uncaught exception, exit code 1
            /\ exitcode' = 1
            /\ UNCHANGED <<queue, poisonSent>>
    /\ UNCHANGED <<callVars, obsVars, runnerVars, pStopped, pInterrupted, pProcess, qClosed, status,
                   epc, result, planned, tbLeft, writes, kpc, kCalls, kRaised, accepted,
                   dropped, delivered>>

\* The child is killed by SIGINT under the default disposition
ChildKilled ==
    /\ cpc \in {"running", "traceback", "finally"}
    /\ cpc' = "exited"
    /\ exitcode' = -SIGINT
    /\ UNCHANGED <<callVars, obsVars, runnerVars, pStopped, pInterrupted, pProcess, queue, qClosed, status,
                   epc, result, planned, tbLeft, writes, kpc, kCalls, kRaised, accepted,
                   dropped, delivered, poisonSent>>

\* ---- stop() and interrupted() (lines 102-109), called from another thread

\* self._stopped = True
BackendStop ==
    /\ kpc = "idle"
    /\ kCalls < MaxStopCalls
    /\ kCalls' = kCalls + 1
    /\ pStopped' = TRUE
    /\ kpc' = "poison"
    /\ UNCHANGED <<callVars, obsVars, runnerVars, pInterrupted, pProcess, exitcode, queue, qClosed, status, epc,
                   result, cpc, planned, tbLeft, writes, kRaised, accepted, dropped,
                   delivered, poisonSent>>

\* self.output_queue.put_nowait((_QueueStop(), False)): raises on a closed or full queue
BackendStopPoison ==
    /\ kpc = "poison"
    /\ IF qClosed \/ Full(queue)
       THEN /\ kRaised' = TRUE
            /\ kpc' = "idle"
            /\ UNCHANGED queue
       ELSE /\ queue' = Append(queue, QueueStop)
            /\ kpc' = "terminate"
            /\ UNCHANGED kRaised
    /\ UNCHANGED <<callVars, obsVars, runnerVars, pStopped, pInterrupted, pProcess, exitcode, qClosed, status, epc,
                   result, cpc, planned, tbLeft, writes, kCalls, accepted, dropped,
                   delivered, poisonSent>>

\* `if self._process: self._process.terminate()`; terminate() on a process that
\* was created and not started raises
BackendStopTerminate ==
    /\ kpc = "terminate"
    /\ kpc' = "idle"
    /\ kRaised' = (kRaised \/ pProcess = "created")
    /\ IF pProcess = "started" /\ cpc # "exited"
       THEN /\ cpc' = "exited"
            /\ exitcode' = -SIGTERM
       ELSE UNCHANGED <<cpc, exitcode>>
    /\ UNCHANGED <<callVars, obsVars, runnerVars, pStopped, pInterrupted, pProcess, queue, qClosed, status, epc,
                   result, planned, tbLeft, writes, kCalls, accepted, dropped,
                   delivered, poisonSent>>

\* self._interrupted = True
BackendInterrupted ==
    /\ kpc = "idle"
    /\ kCalls < MaxStopCalls
    /\ kCalls' = kCalls + 1
    /\ pInterrupted' = TRUE
    /\ UNCHANGED <<callVars, obsVars, runnerVars, pStopped, pProcess, exitcode, queue, qClosed, status, epc,
                   result, cpc, planned, tbLeft, writes, kpc, kRaised, accepted, dropped,
                   delivered, poisonSent>>

NextBackend ==
    \/ ExecuteBegin
    \/ ProcessStart
    \/ ReadOutput
    \/ Join
    \/ ExecuteMap
    \/ \E w \in WriteCalls : Write(w.text, w.is_err)
    \/ \E e \in TargetEnds : TargetEnd(e)
    \/ PutTraceback
    \/ ChildExit
    \/ ChildKilled
    \/ BackendStop
    \/ BackendStopPoison
    \/ BackendStopTerminate
    \/ BackendInterrupted

\* One backend object, the thread in execute(), the child, and a controlling thread;
\* no runner instance exists
InitProc == InitRunner({}, PlainConfig, {"ok"}, [i \in Inst |-> [runs |-> 0, stops |-> 0]], {})
SpecProc == InitProc /\ [][NextBackend]_vars

\* ------------------------------------------------- observers and fan-out
\* taro/jobs/runner.py, lines 31-40, 99-103, 250-261, 300-307

DEFAULT_OBSERVER_PRIORITY == 100
Priorities == {10, 30, DEFAULT_OBSERVER_PRIORITY}
Observers == {"o1", "o2", "o3"}
\* the priorities used while a fan-out is in progress
FanPriorities == {10, DEFAULT_OBSERVER_PRIORITY}

\* (mutant) an unstable sort: a pair goes before the pairs of its priority
InsertBeforeEqual(sorted_seq, e) ==
    LET before == SelectSeq(sorted_seq, LAMBDA x : x[1] < e[1])
        after == SelectSeq(sorted_seq, LAMBDA x : x[1] >= e[1])
    IN before \o <<e>> \o after

\* sorted(seq, key=itemgetter(0)): a stable sort by the first component
InsertStable(sorted_seq, e) ==
    LET before == SelectSeq(sorted_seq, LAMBDA x : x[1] <= e[1])
        after == SelectSeq(sorted_seq, LAMBDA x : x[1] > e[1])
    IN before \o <<e>> \o after

RECURSIVE sorted(_)
sorted(seq) ==
    IF seq = <<>> THEN <<>>
    ELSE InsertStable(sorted(SubSeq(seq, 1, Len(seq) - 1)), seq[Len(seq)])

add_prioritized(prioritized_seq, priority, item) ==
    sorted(prioritized_seq \o << <<priority, item>> >>)

remove_prioritized(prioritized_seq, item) ==
    SelectSeq(prioritized_seq, LAMBDA e : e[2] # item)

\* chain(*prioritized_seq): the lists one after the other
gen_prioritized(seq1, seq2) == seq1 \o seq2

Registered(o) ==
    \E j \in 1..Len(self_state_observers \o state_observers) :
        (self_state_observers \o state_observers)[j][2] = o

\* what the last fan-out did is forgotten
ForgetFanOut ==
    /\ channel' = "none"
    /\ fired' = <<>>
    /\ logged' = <<>>
    /\ propagated' = FALSE

\* the registration order after an observer was registered / a registry was rebuilt
\* without it
RegisteredLast(o) == Append(regOrder, o)
Forgotten(before, after, o) ==
    IF before = after THEN regOrder ELSE SelectSeq(regOrder, LAMBDA x : x # o)

\* RunnerJobInstance.add_state_observer(observer, priority)
add_state_observer(o, priority) ==
    /\ ~Registered(o)
    /\ self_state_observers' = add_prioritized(self_state_observers, priority, o)
    /\ regOrder' = RegisteredLast(o)
    /\ ForgetFanOut
    /\ UNCHANGED <<callVars, runnerVars, procVars, state_observers, self_warning_observers,
                   warning_observers, self_output_observers, output_observers>>

\* RunnerJobInstance.remove_state_observer(observer)
remove_state_observer(o) ==
    /\ Registered(o)
    /\ self_state_observers' = remove_prioritized(self_state_observers, o)
    /\ regOrder' = Forgotten(self_state_observers, self_state_observers', o)
    /\ ForgetFanOut
    /\ UNCHANGED <<callVars, runnerVars, procVars, state_observers, self_warning_observers,
                   warning_observers, self_output_observers, output_observers>>

\* register_state_observer(observer, priority)
register_state_observer(o, priority) ==
    /\ ~Registered(o)
    /\ state_observers' = add_prioritized(state_observers, priority, o)
    /\ regOrder' = RegisteredLast(o)
    /\ ForgetFanOut
    /\ UNCHANGED <<callVars, runnerVars, procVars, self_state_observers, self_warning_observers,
                   warning_observers, self_output_observers, output_observers>>

\* deregister_state_observer(observer)
deregister_state_observer(o) ==
    /\ Registered(o)
    /\ state_observers' = remove_prioritized(state_observers, o)
    /\ regOrder' = Forgotten(state_observers, state_observers', o)
    /\ ForgetFanOut
    /\ UNCHANGED <<callVars, runnerVars, procVars, self_state_observers, self_warning_observers,
                   warning_observers, self_output_observers, output_observers>>

\* (mutant) the loop without its try/except: the first exception ends the fan-out
\* and reaches the caller
FanOutUncaught(seq, raising) ==
    LET bad == {j \in 1..Len(seq) : seq[j][2] \in raising}
        first == IF bad = {} THEN Len(seq) ELSE CHOOSE j \in bad : \A k \in bad : j <= k
    IN [invoked |-> SubSeq(seq, 1, first),
        logged |-> <<>>,
        propagated |-> bad # {}]

\* The loop of _notify_*_observers over the pairs `seq`, when the observers in
\* `raising` raise: `try: ... except BaseException: log.exception(...)` around each call
FanOut(seq, raising) ==
    [invoked |-> seq,
     logged |-> SelectSeq(seq, LAMBDA e : e[2] \in raising),
     propagated |-> FALSE]

\* _notify_state_observers(job_info), from _state_change
notify_state_observers ==
    \E raising \in SUBSET Observers :
        LET r == FanOut(gen_prioritized(self_state_observers, state_observers), raising)
        IN /\ channel' = "state"
           /\ fired' = r.invoked
           /\ logged' = r.logged
           /\ propagated' = r.propagated
           /\ UNCHANGED <<callVars, runnerVars, procVars, self_state_observers, state_observers,
                          self_warning_observers, warning_observers, self_output_observers,
                          output_observers, regOrder>>

\* _notify_warning_observers(job_info, warning, event_ctx), from add_warning
notify_warning_observers ==
    \E raising \in SUBSET Observers :
        LET r == FanOut(gen_prioritized(self_warning_observers, warning_observers), raising)
        IN /\ channel' = "warning"
           /\ fired' = r.invoked
           /\ logged' = r.logged
           /\ propagated' = r.propagated
           /\ UNCHANGED <<callVars, runnerVars, procVars, self_state_observers, state_observers,
                          self_warning_observers, warning_observers, self_output_observers,
                          output_observers, regOrder>>

\* _notify_output_observers(job_info, output), from output_update
notify_output_observers ==
    \E raising \in SUBSET Observers :
        LET r == FanOut(gen_prioritized(self_output_observers, output_observers), raising)
        IN /\ channel' = "output"
           /\ fired' = r.invoked
           /\ logged' = r.logged
           /\ propagated' = r.propagated
           /\ UNCHANGED <<callVars, runnerVars, procVars, self_state_observers, state_observers,
                          self_warning_observers, warning_observers, self_output_observers,
                          output_observers, regOrder>>

NextObservers ==
    \/ \E o \in Observers, priority \in Priorities : add_state_observer(o, priority)
    \/ \E o \in Observers : remove_state_observer(o)
    \/ \E o \in Observers, priority \in Priorities : register_state_observer(o, priority)
    \/ \E o \in Observers : deregister_state_observer(o)
    \/ notify_state_observers

SpecObs == InitProc /\ [][NextObservers]_vars

\* ---- a fan-out in steps, with registrations between the steps

\* (mutant) the registries are changed in place: the loop walks the lists as
\* they are now
IteratedLive(given, live) == live

\* The pairs the loop of _notify_state_observers iterates: the list objects that
\* _gen_prioritized was given when the loop began (lines 251, 39-40); a
\* registration binds a new list (lines 100, 103, 302, 307) and leaves them alone
Iterated(given, live) == given

\* `for observer in _gen_prioritized(self._state_observers, _state_observers):`
\* the two lists are read and chained
FanOutBegin ==
    /\ ~fanActive
    /\ fanActive' = TRUE
    /\ fanIter' = gen_prioritized(self_state_observers, state_observers)
    /\ fanPos' = 0
    /\ fanInvoked' = <<>>
    /\ UNCHANGED <<relVars, warnVars, depVars, snapVars, auxVars, dbVars, runnerVars, procVars, obsVars>>

\* one turn of the loop: the next observer is invoked, or the loop ends
FanOutStep ==
    /\ fanActive
    /\ LET seq == Iterated(fanIter, gen_prioritized(self_state_observers, state_observers))
       IN IF fanPos < Len(seq)
          THEN /\ fanInvoked' = Append(fanInvoked, seq[fanPos + 1][2])
               /\ fanPos' = fanPos + 1
               /\ UNCHANGED fanActive
          ELSE /\ fanActive' = FALSE
               /\ UNCHANGED <<fanPos, fanInvoked>>
    /\ UNCHANGED <<fanIter, relVars, warnVars, depVars, snapVars, auxVars, dbVars, runnerVars, procVars, obsVars>>

NextFanOut ==
    \/ \E o \in Observers, priority \in FanPriorities : add_state_observer(o, priority)
    \/ \E o \in Observers : remove_state_observer(o)
    \/ \E o \in Observers, priority \in FanPriorities : register_state_observer(o, priority)
    \/ \E o \in Observers : deregister_state_observer(o)
    \/ FanOutBegin
    \/ FanOutStep

SpecFanOut == InitProc /\ [][NextFanOut]_vars

\* ---- fan-out on the three channels, over registries that registrations built

\* the registries of one channel: a per-instance list and a process-wide list
Registries ==
    {[self |-> <<>>, global |-> <<>>],
     [self |-> add_prioritized(<<>>, 30, "o1"), global |-> <<>>],
     [self |-> add_prioritized(<<>>, 30, "o1"),
      global |-> add_prioritized(<<>>, 10, "o2")],
     [self |-> add_prioritized(add_prioritized(<<>>, 30, "o1"), 10, "o2"),
      global |-> add_prioritized(<<>>, DEFAULT_OBSERVER_PRIORITY, "o3")]}

InitChannels ==
    /\ InitBackend
    /\ InitCalls
    /\ InitFanOut
    /\ \E st \in Registries, w \in Registries, out \in Registries :
        /\ self_state_observers = st.self
        /\ state_observers = st.global
        /\ self_warning_observers = w.self
        /\ warning_observers = w.global
        /\ self_output_observers = out.self
        /\ output_observers = out.global
        /\ regOrder = <<>>
    /\ InitInstances({}, PlainConfig, {"ok"}, [i \in Inst |-> [runs |-> 0, stops |-> 0]], {})

NextChannels ==
    \/ notify_state_observers
    \/ notify_warning_observers
    \/ notify_output_observers

SpecChannels == InitChannels /\ [][NextChannels]_vars

\* ---------------------------------------------------------------- warnings

\* Counter.update([name]) on self._warnings, one more occurrence for every name
\* of the counter
CounterUpdateAll(counter, name) ==
    [n \in DOMAIN counter |-> counter[n] + 1]

\* Counter.update([name]) on self._warnings: one more occurrence of `name`
CounterUpdate(counter, name) ==
    [counter EXCEPT ![name] = @ + 1]

\* The `warnings` property, dict(self._warnings): the names that occurred, each
\* with its number of occurrences (a Counter holds no key it never counted)
WarningsDict(counter) ==
    [n \in {m \in DOMAIN counter : counter[m] > 0} |-> counter[n]]

\* add_warning(warning): count the occurrence, then hand the snapshot, the
\* warning and WarnEventCtx(count) to the warning observers
add_warning(name) ==
    /\ Len(warnCalls) < MaxWarnings
    /\ warnings' = CounterUpdate(warnings, name)
    /\ warnCalls' = Append(warnCalls, name)
    /\ \E raising \in SUBSET Observers :
        LET r == FanOut(gen_prioritized(self_warning_observers, warning_observers), raising)
        IN /\ channel' = "warning"
           /\ fired' = r.invoked
           /\ logged' = r.logged
           /\ propagated' = r.propagated
           /\ warnNotified' = Append(warnNotified,
                  [warning |-> name,
                   warnings |-> WarningsDict(warnings'),
                   count |-> warnings'[name],
                   observers |-> r.invoked])
    /\ UNCHANGED <<relVars, depVars, snapVars, auxVars, fanVars, dbVars, runnerVars, procVars, self_state_observers, state_observers,
                   self_warning_observers, warning_observers, self_output_observers,
                   output_observers, regOrder>>

InitWarn ==
    /\ InitBackend
    /\ InitCalls
    /\ InitFanOut
    /\ \E w \in Registries :
        /\ self_warning_observers = w.self
        /\ warning_observers = w.global
    /\ self_state_observers = <<>>
    /\ state_observers = <<>>
    /\ self_output_observers = <<>>
    /\ output_observers = <<>>
    /\ regOrder = <<>>
    /\ InitInstances({}, PlainConfig, {"ok"}, [i \in Inst |-> [runs |-> 0, stops |-> 0]], {})

NextWarn == \E name \in WarnNames : add_warning(name)

SpecWarn == InitWarn /\ [][NextWarn]_vars

\* ------------------------------------------------------ SQLite persistence
\* taro/jobs/db/sqlite.py

\* a datetime: whole seconds since the epoch and the microsecond field
Datetimes == [seconds : {1, 2}, microsecond : {0, 500000}]

NotAfter(a, b) ==
    a.seconds < b.seconds \/ (a.seconds = b.seconds /\ a.microsecond <= b.microsecond)

\* the lifecycles of finished jobs: (state, changed) pairs in the order of the changes
FinishedLifecycles ==
    {<< [state |-> "CREATED", changed |-> t[1]], [state |-> "RUNNING", changed |-> t[2]],
        [state |-> e, changed |-> t[3]] >> :
        e \in {"COMPLETED", "FAILED", "STOPPED"},
        t \in {u \in [1..3 -> Datetimes] : NotAfter(u[1], u[2]) /\ NotAfter(u[2], u[3])}}
    \cup
    {<< [state |-> "CREATED", changed |-> t[1]], [state |-> e, changed |-> t[2]] >> :
        e \in {"CANCELLED", "ERROR"},
        t \in {u \in [1..2 -> Datetimes] : NotAfter(u[1], u[2])}}

\* int(changed.timestamp()) (line 141): the float of seconds, cut to an integer
int_timestamp(dt) == dt.seconds

\* datetime.fromtimestamp(changed, tz=timezone.utc) (line 100) of an integer
fromtimestamp(n) == [seconds |-> n, microsecond |-> 0]

\* the state_changed column: json.dumps of the (state.name, seconds) pairs (lines 140-141)
state_changed(lc) ==
    [k \in 1..Len(lc) |-> <<lc[k].state, int_timestamp(lc[k].changed)>>]

\* to_job_info (lines 99-101): the lifecycle rebuilt from json.loads of the column
to_job_info(row) ==
    [k \in 1..Len(row.state_changed) |->
        [state |-> row.state_changed[k][1], changed |-> fromtimestamp(row.state_changed[k][2])]]

\* store_job(job_info): one row is inserted (lines 133-150)
store_job(lc) ==
    /\ Len(history) < MaxRows
    /\ history' = Append(history, [state_changed |-> state_changed(lc)])
    /\ dbStored' = Append(dbStored, lc)
    /\ UNCHANGED <<dbRead, relVars, warnVars, depVars, snapVars, auxVars, fanVars, runnerVars, procVars, obsVars>>

\* read_jobs(): every row, in insertion order (lines 56-111)
read_jobs ==
    /\ history # <<>>
    /\ dbRead' = [k \in 1..Len(history) |-> to_job_info(history[k])]
    /\ UNCHANGED <<history, dbStored, relVars, warnVars, depVars, snapVars, auxVars, fanVars, runnerVars, procVars, obsVars>>

NextStore ==
    \/ \E lc \in FinishedLifecycles : store_job(lc)
    \/ read_jobs

SpecStore == InitProc /\ [][NextStore]_vars

\* --------------------------------------------------------------- snapshots
\* taro/jobs/runner.py, create_info (lines 86-97)

\* (mutant) the snapshot is given the instance's own object
Shared(fresh, live) == live

\* copy.deepcopy(self._lifecycle) and dict(self._warnings): the snapshot is given
\* a new object (lines 88, 96)
Copied(fresh, live) == fresh

\* the states recorded on the instance while snapshots are held
SnapStates == {"RUNNING", "COMPLETED", "FAILED"}

\* self._lifecycle.set_state(new_state): the instance's lifecycle object changes
SnapRecord(s) ==
    /\ set_state_changes(objLifecycle[Live], s)
    /\ objLifecycle' = [objLifecycle EXCEPT ![Live] = set_state(@, s)]
    /\ UNCHANGED <<objWarnings, snapshots, relVars, warnVars, depVars, dbVars, fanVars, auxVars,
                   runnerVars, procVars, obsVars>>

\* self._warnings.update([warning.name]): the instance's Counter changes
SnapWarn(name) ==
    /\ objWarnings[Live][name] < MaxWarnings
    /\ objWarnings' = [objWarnings EXCEPT ![Live] = CounterUpdate(@, name)]
    /\ UNCHANGED <<objLifecycle, snapshots, relVars, warnVars, depVars, dbVars, fanVars, auxVars,
                   runnerVars, procVars, obsVars>>

\* create_info(): a JobInfo is built and handed to an observer or to persistence
SnapCreateInfo ==
    /\ Len(snapshots) < MaxSnapshots
    /\ LET fresh == Len(snapshots) + 1
           lc == Copied(fresh, Live)
           w == Copied(fresh, Live)
       IN /\ objLifecycle' = [objLifecycle EXCEPT ![fresh] = objLifecycle[Live]]
          /\ objWarnings' = [objWarnings EXCEPT ![fresh] = objWarnings[Live]]
          /\ snapshots' = Append(snapshots,
                 [lifecycle |-> lc, warnings |-> w,
                  saw |-> [lifecycle |-> objLifecycle[Live],
                           warnings |-> WarningsDict(objWarnings[Live])]])
    /\ UNCHANGED <<relVars, warnVars, depVars, dbVars, fanVars, auxVars, runnerVars, procVars, obsVars>>

NextSnap ==
    \/ \E s \in SnapStates : SnapRecord(s)
    \/ \E name \in WarnNames : SnapWarn(name)
    \/ SnapCreateInfo

SpecSnap == InitProc /\ [][NextSnap]_vars

\* ------------------------------------------------------------- id matching
\* taro/jobs/job.py (IDMatchingCriteria, compound_id_filter), taroapp/argsutil.py

\* ids and patterns are strings: sequences of characters
Chars == {"a", "@"}
Strings(n) == UNION {[1..k -> Chars] : k \in 0..n}
Patterns == Strings(MaxPatternLen)
PatternSeqs == UNION {[1..k -> Patterns] : k \in 0..MaxCriteria}
IdStrings == {<<"a">>, <<"a", "a">>}
JobInstanceIDs == [job_id : IdStrings, instance_id : IdStrings]

\* taro.util.MatchingStrategy: exact and substring matching of a text
MatchingStrategies == {"EXACT", "PARTIAL"}
strategy(name, text, pattern) ==
    IF name = "EXACT" THEN text = pattern
    ELSE \E k \in 0..(Len(text) - Len(pattern)) : SubSeq(text, k + 1, k + Len(pattern)) = pattern

\* taro.util.and_ / or_
and_(a, b) == a /\ b
or_(a, b) == a \/ b

\* `"@" in pattern`
Contains(str, c) == \E k \in 1..Len(str) : str[k] = c

\* str.split(sep)
RECURSIVE split(_, _)
split(str, sep) ==
    IF ~Contains(str, sep) THEN <<str>>
    ELSE LET k == CHOOSE k \in 1..Len(str) : str[k] = sep /\ \A j \in 1..(k - 1) : str[j] # sep
         IN <<SubSeq(str, 1, k - 1)>> \o split(SubSeq(str, k + 1, Len(str)), sep)

IDMatchingCriteria(job_id, instance_id, match_both_ids, strat) ==
    [job_id |-> job_id, instance_id |-> instance_id, match_both_ids |-> match_both_ids,
     strategy |-> strat]

\* parse_pattern (lines 38-46); unpacking the split into two names raises
\* ValueError unless it has exactly two parts
ParseRaises(pattern) == Contains(pattern, "@") /\ Len(split(pattern, "@")) # 2
parse_pattern(pattern, strat) ==
    IF Contains(pattern, "@")
    THEN LET parts == split(pattern, "@")
         IN IDMatchingCriteria(parts[1], parts[2], TRUE, strat)
    ELSE IDMatchingCriteria(pattern, pattern, FALSE, strat)

\* (mutant) the two components are always combined with or_
op_or(match_both_ids, a, b) == or_(a, b)

\* _op() applied to the two components (lines 55-61)
op(match_both_ids, a, b) == IF match_both_ids THEN and_(a, b) ELSE or_(a, b)

\* matches(jid) (lines 58-61)
matches(criteria, jid) ==
    op(criteria.match_both_ids,
       criteria.job_id = <<>> \/ strategy(criteria.strategy, jid.job_id, criteria.job_id),
       criteria.instance_id = <<>>
           \/ strategy(criteria.strategy, jid.instance_id, criteria.instance_id))

\* compound_id_filter(criteria_seq)(jid) (lines 82-86)
compound_id_filter(criteria_seq, jid) ==
    criteria_seq = <<>> \/ \E k \in 1..Len(criteria_seq) : matches(criteria_seq[k], jid)

\* argsutil.id_matching_criteria: every pattern is parsed, or the first
\* ValueError leaves the call
id_matching_criteria ==
    /\ mPc = "input"
    /\ IF \E k \in 1..Len(mPatterns) : ParseRaises(mPatterns[k])
       THEN /\ mPc' = "raised"
            /\ UNCHANGED mCriteria
       ELSE /\ mPc' = "parsed"
            /\ mCriteria' = [k \in 1..Len(mPatterns) |-> parse_pattern(mPatterns[k], mStrategy)]
    /\ UNCHANGED <<mPatterns, mStrategy, mJid, mResult, infoVars, regVars, raceVars, relVars, warnVars, depVars, dbVars,
                   fanVars, snapVars, runnerVars, procVars, obsVars>>

\* argsutil.id_match(...)(jid): the compound filter is applied to an id
id_match ==
    /\ mPc = "parsed"
    /\ mResult' = compound_id_filter(mCriteria, mJid)
    /\ mPc' = "matched"
    /\ UNCHANGED <<mPatterns, mStrategy, mJid, mCriteria, infoVars, regVars, raceVars, relVars, warnVars, depVars, dbVars,
                   fanVars, snapVars, runnerVars, procVars, obsVars>>

\* the patterns, the strategy and the id are given
InitMatch ==
    /\ mPc = "input"
    /\ mPatterns \in PatternSeqs
    /\ mStrategy \in MatchingStrategies
    /\ mJid \in JobInstanceIDs
    /\ mCriteria = <<>>
    /\ mResult = FALSE
    /\ InitCallsBase
    /\ InitBackend
    /\ InitObservers
    /\ InitInstances({}, PlainConfig, {"ok"}, [i \in Inst |-> [runs |-> 0, stops |-> 0]], {})

NextMatch == id_matching_criteria \/ id_match

SpecMatch == InitMatch /\ [][NextMatch]_vars

\* ------------------------------------------- registrations at the same time
\* taro/jobs/runner.py, register_state_observer / deregister_state_observer
\* (lines 300-307); the instance's add_/remove_ methods (lines 99-115) have the
\* same shape

\* `_state_observers = <the list built>`: the name is bound to the list that
\* was built from what the thread read
Bound(built, call, registry) == built

\* the right-hand side is evaluated: the global is read and a new list is built
\* by _add_prioritized or _remove_prioritized
RegistrationBuild(t, kind, o, priority) ==
    /\ rpc[t] = "idle"
    /\ rop' = [rop EXCEPT ![t] = [kind |-> kind, observer |-> o, priority |-> priority]]
    /\ rbuilt' = [rbuilt EXCEPT ![t] =
                     IF kind = "register" THEN add_prioritized(state_observers, priority, o)
                     ELSE remove_prioritized(state_observers, o)]
    /\ rpc' = [rpc EXCEPT ![t] = "built"]
    /\ UNCHANGED <<matchVars, infoVars, raceVars, relVars, warnVars, depVars, dbVars, fanVars,
                   snapVars, runnerVars, procVars, obsVars>>

\* the assignment: the global is bound to the new list
RegistrationBind(t) ==
    /\ rpc[t] = "built"
    /\ state_observers' = Bound(rbuilt[t], rop[t], state_observers)
    /\ rpc' = [rpc EXCEPT ![t] = "done"]
    /\ UNCHANGED <<rop, rbuilt, matchVars, infoVars, raceVars, relVars, warnVars, depVars, dbVars,
                   fanVars, snapVars, runnerVars, procVars, self_state_observers,
                   self_warning_observers, warning_observers, self_output_observers,
                   output_observers, regOrder, channel, fired, logged, propagated>>

NextRegistrations ==
    \E t \in Registrars :
        \/ \E o \in Observers, priority \in FanPriorities :
               RegistrationBuild(t, "register", o, priority)
        \/ \E o \in Observers : RegistrationBuild(t, "deregister", o, 0)
        \/ RegistrationBind(t)

SpecRegistrations == InitProc /\ [][NextRegistrations]_vars

\* -------------------------------------------------- warnings at the same time
\* taro/jobs/runner.py, add_warning (lines 148-151) called by several threads
\* with one name

\* self._warnings.update([warning.name]) (line 149)
WarningUpdate(t) ==
    /\ wpc[t] = "idle"
    /\ wCounter' = CounterUpdate([n \in {"w"} |-> wCounter], "w")["w"]
    /\ wpc' = [wpc EXCEPT ![t] = "updated"]
    /\ UNCHANGED <<wCount, wDelivered, matchVars, infoVars, regVars, relVars, warnVars, depVars,
                   dbVars, fanVars, snapVars, runnerVars, procVars, obsVars>>

\* The arguments of the notification are evaluated (line 151): create_info(),
\* then WarnEventCtx(self._warnings[warning.name]), the count as it is now
WarningRead(t) ==
    /\ wpc[t] = "updated"
    /\ wCount' = [wCount EXCEPT ![t] = wCounter]
    /\ wpc' = [wpc EXCEPT ![t] = "read"]
    /\ UNCHANGED <<wCounter, wDelivered, matchVars, infoVars, regVars, relVars, warnVars, depVars,
                   dbVars, fanVars, snapVars, runnerVars, procVars, obsVars>>

\* self._notify_warning_observers(job_info, warning, event_ctx)
WarningNotify(t) ==
    /\ wpc[t] = "read"
    /\ wDelivered' = Append(wDelivered, wCount[t])
    /\ wpc' = [wpc EXCEPT ![t] = "done"]
    /\ UNCHANGED <<wCounter, wCount, matchVars, infoVars, regVars, relVars, warnVars, depVars,
                   dbVars, fanVars, snapVars, runnerVars, procVars, obsVars>>

NextWarnings ==
    \E t \in WarnThreads : WarningUpdate(t) \/ WarningRead(t) \/ WarningNotify(t)

SpecWarnings == InitProc /\ [][NextWarnings]_vars

\* ---------------------------------------------------------------- claims

\* C1: once the current state of an instance's lifecycle is terminal, no step
\* changes the lifecycle: a later record attempt is rejected and adds no entry.
C1_TerminalIsFinal ==
    [][\A i \in Inst : is_terminal(state(lifecycle[i])) => lifecycle'[i] = lifecycle[i]]_vars

\* C1 witness: a record attempt holds the locks on an instance that is already terminal
C1_Witness ==
    \E i \in active : pc[i] = "sc_set" /\ is_terminal(state(lifecycle[i]))

\* C2: a stop()/interrupt() call that began before execute() was invoked is never
\* lost: once the call has returned, either execute() was not invoked or the
\* backend's stop()/interrupt() was called.
C2_StopNeverLost ==
    \A i \in active :
        (stopEarly[i] /\ spc[i] = "idle")
            => (execInvoked[i] = 0 \/ bStopped[i] \/ bInterrupted[i])

\* C3: when stop()/interrupt() was called before run() began, the strategy is not
\* consulted, execute() is not invoked, and run() ends with the instance CANCELLED.
C3_StopBeforeRunCancels ==
    \A i \in active :
        stopFirst[i] =>
            /\ ~consulted[i]
            /\ execInvoked[i] = 0
            /\ lifecycle[i] \in {<<"CREATED">>, <<"CREATED", "CANCELLED">>}
            /\ (pc[i] = "done" => state(lifecycle[i]) = "CANCELLED")

\* C3 witness: run() has returned on an instance stopped before it began
C3_Witness ==
    \E i \in active : stopFirst[i] /\ pc[i] = "done" /\ state(lifecycle[i]) = "CANCELLED"

\* An instance is inside an admission decision: from the evaluation of its stop
\* flag and strategy until the state of that decision is recorded
InAdmissionDecision(i) ==
    \/ pc[i] = "sync_decide"
    \/ (pc[i] \in {"sc_state_lock", "sc_set"} /\ site[i] = "sync")

\* C4: no two instances sharing the admission lock are inside an admission
\* decision at the same time.
C4_AdmissionSerialized ==
    \A i, j \in active : (i # j /\ InAdmissionDecision(i)) => ~InAdmissionDecision(j)

\* C4 witness: one instance decides while the other has reached the lock and waits
C4_Witness ==
    \E i, j \in active : i # j /\ InAdmissionDecision(i) /\ pc[j] = "sync_enter"

\* C5: no instance calls the persistence collaborator or notifies its state
\* observers while it holds the shared admission lock.
C5_NoFanOutUnderAdmissionLock ==
    \A i \in active : pc[i] \in {"sc_store", "sc_notify"} => glock # i

\* C6: whenever the child exits by returning or by an exception of the target
\* (a non-negative exit code), whatever the queue held at that moment, the
\* poison message has been enqueued
C6_PoisonOnEveryExit ==
    (cpc = "exited" /\ exitcode >= 0) => poisonSent

\* C7: an execute() that follows a stop() or an interrupt() starts no child,
\* raises nothing, and returns INTERRUPTED after interrupt() and STOPPED after stop()
C7_AbortBeforeStart ==
    (epc = "done" /\ pProcess = "none") =>
        /\ result.kind = "return"
        /\ result.interrupted => result.value = "INTERRUPTED"
        /\ ~result.interrupted => result.value = "STOPPED"

Lines(q) == SelectSeq(q, LAMBDA m : ~m.stop)

\* C9: a write that finds the queue full changes nothing in the queue, a write
\* of a non-empty line that finds room appends the line; the lines waiting in
\* the queue are the enqueued lines not yet delivered, and the delivered lines
\* are a prefix of the enqueued lines, in the order they were enqueued
C9_WriterNeverBlocks ==
    /\ [](/\ Len(delivered) <= Len(accepted)
          /\ delivered = SubSeq(accepted, 1, Len(delivered))
          /\ Lines(queue) = SubSeq(accepted, Len(delivered) + 1, Len(accepted)))
    /\ [][/\ dropped' > dropped => (Full(queue) /\ queue' = queue /\ epc' = epc)
          /\ (writes' > writes /\ accepted' # accepted) =>
                 (~Full(queue) /\ queue' = Append(queue, accepted'[Len(accepted')]))]_vars

C9_Witness ==
    /\ dropped > 0
    /\ Len(delivered) >= QueueMaxSize
    /\ epc = "done"

\* C10: the observers a fan-out invokes are invoked in the order of their
\* priority numbers, lower first, whichever list each is registered in
C10_FanOutByPriority ==
    \A j, k \in 1..Len(fired) : j < k => fired[j][1] <= fired[k][1]

Pos(seq, o) == CHOOSE j \in 1..Len(seq) : seq[j] = o

\* a registry holds its pairs by non-decreasing priority, and pairs of one
\* priority in the order their observers were registered
InRegistrationOrder(registry) ==
    \A j, k \in 1..Len(registry) :
        j < k => /\ registry[j][1] <= registry[k][1]
                 /\ registry[j][1] = registry[k][1] =>
                        Pos(regOrder, registry[j][2]) < Pos(regOrder, registry[k][2])

\* C11: after any registrations and deregistrations each registry is in
\* non-decreasing priority order with equal priorities in registration order,
\* and a fan-out invokes the observers of each registry in that order
C11_RegistryOrder ==
    /\ InRegistrationOrder(self_state_observers)
    /\ InRegistrationOrder(state_observers)
    /\ channel = "state" =>
           /\ SubSeq(fired, 1, Len(self_state_observers)) = self_state_observers
           /\ SubSeq(fired, Len(self_state_observers) + 1, Len(fired)) = state_observers

\* registered with priorities 100, 10, 30 in this order, fired as 10, 30, 100
C11_Witness ==
    /\ channel = "state"
    /\ Len(fired) = 3
    /\ fired = self_state_observers
    /\ <<fired[1][1], fired[2][1], fired[3][1]>> = <<10, 30, DEFAULT_OBSERVER_PRIORITY>>
    /\ regOrder = <<fired[3][2], fired[1][2], fired[2][2]>>

\* C12: on each channel a fan-out invokes every listener of the channel's two
\* registries, also those ordered after a listener that raised, and no
\* exception reaches the caller of the triggering operation
C12_ListenerIsolation ==
    /\ ~propagated
    /\ channel = "state" => fired = self_state_observers \o state_observers
    /\ channel = "warning" => fired = self_warning_observers \o warning_observers
    /\ channel = "output" => fired = self_output_observers \o output_observers

C12_Witness ==
    /\ channel = "warning"
    /\ Len(fired) >= 2
    /\ logged # <<>>
    /\ logged[1] = fired[1]

\* C13: an instance created with pending value "G", run without a stop request,
\* records PENDING and stays in the admission wait while no release call
\* matched; a release call whose group is neither empty nor "G" returns false
\* and changes nothing of the instance; a matching one returns true and opens
\* the latch, after which the thread leaves the wait and admission proceeds
C13_LatchRelease ==
    /\ [](/\ pc["a"] = "sync_wait" => state(lifecycle["a"]) = "PENDING"
          /\ (~latchSet["a"] /\ ~stoppedOrInterrupted["a"]) =>
                 /\ execInvoked["a"] = 0
                 /\ pc["a"] # "done"
                 /\ lifecycle["a"] \in {<<"CREATED">>, <<"CREATED", "PENDING">>})
    /\ [][relLog' # relLog =>
            LET call == relLog'[Len(relLog')] IN
            /\ call.returned = (call.group \in {"", "G"})
            /\ call.returned => latchSet'["a"]
            /\ ~call.returned => /\ latchSet' = latchSet
                                 /\ pc' = pc
                                 /\ lifecycle' = lifecycle]_vars
    /\ (latchSet["a"] /\ pc["a"] = "sync_wait") ~>
           (pc["a"] = "done" \/ execInvoked["a"] > 0)

\* release("H") returned false, release("G") returned true, and the instance
\* went from PENDING to RUNNING
C13_Witness ==
    /\ relLog = <<[group |-> "H", returned |-> FALSE], [group |-> "G", returned |-> TRUE]>>
    /\ lifecycle["a"] = <<"CREATED", "PENDING", "RUNNING">>
    /\ ~stoppedOrInterrupted["a"]

\* the thread of instance i is past an admission decision in which the
\* strategy signalled NONE
NoneSignalled(i) ==
    sig[i] = "NONE" /\ pc[i] \notin {"idle", "done", "sync_enter", "sync_decide"}

InStateChange(i) ==
    pc[i] \in {"sc_state_lock", "sc_global_lock", "sc_set", "sc_store", "sc_notify"}

\* C14: once the strategy signalled NONE, the thread only records ERROR (the
\* call made by run() after the error left the admission cycle, the shared lock
\* released) and leaves run(): ERROR becomes the instance's state unless it was
\* terminal already, execute() is not invoked, the shared lock is free when
\* run() is left, and run() returns normally
C14_NoneSignalAborts ==
    /\ [](\A i \in Inst : NoneSignalled(i) =>
              /\ InStateChange(i)
              /\ site[i] = "sync_error"
              /\ newState[i] = "ERROR"
              /\ pc[i] = "sc_state_lock" => glock # i
              /\ pc[i] \in {"sc_store", "sc_notify"} => state(lifecycle[i]) = "ERROR")
    /\ [][\A i \in Inst : NoneSignalled(i) =>
              /\ execInvoked'[i] = execInvoked[i]
              /\ (pc[i] = "sc_set" /\ pc'[i] # "sc_set") =>
                     \/ state(lifecycle'[i]) = "ERROR"
                     \/ (is_terminal(state(lifecycle[i])) /\ lifecycle'[i] = lifecycle[i])
              /\ pc'[i] = "done" =>
                     /\ glock' # i
                     /\ is_terminal(state(lifecycle'[i]))
                     /\ ~raised'[i]]_vars

C14_Witness ==
    /\ NoneSignalled("a")
    /\ pc["a"] = "sc_notify"
    /\ lifecycle["a"] = <<"CREATED", "ERROR">>
    /\ execInvoked["a"] = 0
    /\ glock = "free"

\* instance i has the no-op strategy and no latch, and no stop was requested
NoOpUnstopped(i) ==
    /\ i \in active
    /\ cfg[i].sync = "NoSync"
    /\ cfg[i].pending_value = ""
    /\ ~stoppedOrInterrupted[i]

\* the state an admitted instance is expected to enter: TRIGGERED when the
\* backend is asynchronous, RUNNING otherwise
AdmittedState(i) == IF cfg[i].is_async THEN "TRIGGERED" ELSE "RUNNING"

\* C15: an instance with the no-op strategy and no stop request never waits in
\* admission; its lifecycle is CREATED, then RUNNING (TRIGGERED for an
\* asynchronous backend); execute() is invoked, and any further state is
\* recorded, only after that state was recorded and handed to the observers
C15_NoOpAdmitsFirst ==
    \A i \in Inst : NoOpUnstopped(i) =>
        /\ pc[i] # "sync_wait"
        /\ sig[i] \in {"NONE", "CONTINUE"}
        /\ lifecycle[i][1] = "CREATED"
        /\ Len(lifecycle[i]) >= 2 => lifecycle[i][2] = AdmittedState(i)
        /\ (Len(lifecycle[i]) >= 3 \/ execInvoked[i] >= 1 \/ pc[i] = "done") =>
               /\ Len(lifecycle[i]) >= 2
               /\ Len(notified[i]) >= 2
               /\ notified[i][2].state = AdmittedState(i)
               /\ notified[i][2].lifecycle = <<"CREATED", AdmittedState(i)>>

C15_Witness ==
    /\ NoOpUnstopped("a")
    /\ cfg["a"].is_async
    /\ lifecycle["a"] = <<"CREATED", "TRIGGERED", "COMPLETED">>
    /\ Len(notified["a"]) = 3

\* C16: the snapshots handed to the state observers of an instance are, in
\* order, the snapshots of its accepted transitions: the k-th one shows the
\* lifecycle up to the k-th state; an attempt that changes nothing adds none;
\* outside _state_change every accepted transition has been handed over once
C16_NotifyPerTransition ==
    \A i \in active :
        /\ Len(notified[i]) <= Len(lifecycle[i])
        /\ \A k \in 1..Len(notified[i]) :
               /\ notified[i][k].lifecycle = SubSeq(lifecycle[i], 1, k)
               /\ notified[i][k].state = lifecycle[i][k]
        /\ Len(notified[i]) >= Len(lifecycle[i]) - 1
        /\ pc[i] \notin {"sc_store", "sc_notify"} =>
               Len(notified[i]) = Len(lifecycle[i])

\* the strategy made the instance CANCELLED while waiting; the later attempts to
\* record RUNNING and COMPLETED changed nothing and notified nobody
C16_Witness ==
    /\ lifecycle["a"] = <<"CREATED", "CANCELLED">>
    /\ execInvoked["a"] = 1
    /\ pc["a"] = "done"
    /\ persist = "ok"
    /\ Len(notified["a"]) = 2

\* C17: a snapshot handed to the state observers shows a transition that is
\* already in the lifecycle, and, when its state is terminal and persistence is
\* enabled, it was handed to persistence.store_job before
C17_NotifyAfterRecordAndStore ==
    \A i \in active : \A k \in 1..Len(notified[i]) :
        /\ Len(lifecycle[i]) >= k
        /\ notified[i][k].lifecycle = SubSeq(lifecycle[i], 1, k)
        /\ (is_terminal(notified[i][k].state) /\ persist # "off") =>
               \E j \in 1..Len(stored[i]) : stored[i][j].info = notified[i][k]

C17_Witness ==
    /\ persist = "ok"
    /\ Len(notified["a"]) = 3
    /\ notified["a"][3].state = "STOPPED"
    /\ stored["a"] = <<[info |-> notified["a"][3], ok |-> TRUE]>>

\* C18: store_job is called at most once for an instance, with a snapshot whose
\* state is terminal, and never while persistence is disabled; with persistence
\* enabled, an instance in a terminal state has been stored once, as soon as
\* _state_change is past the hand-off
C18_StoredOnceAtTerminal ==
    \A i \in active :
        /\ Len(stored[i]) <= 1
        /\ \A j \in 1..Len(stored[i]) :
               /\ is_terminal(stored[i][j].info.state)
               /\ stored[i][j].info.lifecycle = lifecycle[i]
        /\ persist = "off" => stored[i] = <<>>
        /\ (persist # "off" /\ is_terminal(state(lifecycle[i])) /\ pc[i] # "sc_store") =>
               Len(stored[i]) = 1

C18_Witness ==
    /\ persist = "ok"
    /\ pc["a"] = "done"
    /\ lifecycle["a"] = <<"CREATED", "RUNNING", "FAILED">>
    /\ Len(stored["a"]) = 1
    /\ stored["a"][1].info.state = "FAILED"

\* C19: when store_job raises for a terminal snapshot, the observers are still
\* notified of that transition, the exec error stays the one of the actual
\* outcome, and no error leaves run()
C19_StoreFailureNotFatal ==
    \A i \in active :
        (pc[i] = "done" /\ Len(stored[i]) = 1 /\ ~stored[i][1].ok) =>
            /\ ~raised[i]
            /\ Len(notified[i]) = Len(lifecycle[i])
            /\ execError[i] = stored[i][1].info.exec_error

\* The number of occurrences of `name` among the first k entries of seq
Occurrences(seq, name, k) ==
    Cardinality({j \in 1..k : seq[j] = name})

\* C20: the k-th add_warning notifies the warning observers with the number of
\* occurrences of its name so far, the snapshot it hands over maps every name
\* that occurred to its own number of occurrences and holds no other name, and
\* the instance's warning map is that of all calls made
C20_WarningCounts ==
    /\ Len(warnNotified) = Len(warnCalls)
    /\ \A k \in 1..Len(warnNotified) :
           /\ warnNotified[k].warning = warnCalls[k]
           /\ warnNotified[k].count = Occurrences(warnCalls, warnCalls[k], k)
           /\ warnNotified[k].warnings =
                  [n \in {m \in WarnNames : Occurrences(warnCalls, m, k) > 0} |->
                       Occurrences(warnCalls, n, k)]
    /\ WarningsDict(warnings) =
           [n \in {m \in WarnNames : Occurrences(warnCalls, m, Len(warnCalls)) > 0} |->
                Occurrences(warnCalls, n, Len(warnCalls))]

C20_Witness ==
    /\ warnCalls = <<"disk-full", "disk-full", "disk-full">>
    /\ [k \in 1..3 |-> warnNotified[k].count] = <<1, 2, 3>>
    /\ WarningsDict(warnings) = [n \in {"disk-full"} |-> 3]
    /\ warnNotified[3].observers # <<>>

\* the thread of instance i is inside _state_change, or between the failed
\* store_job of one _state_change and the next step of run()
Settled(i) == pc[i] \notin {"sc_state_lock", "sc_global_lock", "sc_set", "sc_store", "sc_notify"}

\* instance i was admitted: RUNNING or TRIGGERED is in its lifecycle
Admitted(i) == \E k \in 1..Len(lifecycle[i]) : lifecycle[i][k] \in ExecutingStates

\* C21: in the first run() of an admitted instance that declares dependencies, when the
\* lookup returned and no running job matched, DEPENDENCY_NOT_RUNNING is
\* recorded and execute() is not invoked;
\* when a running job matched or the lookup failed, run() does not finish
\* without invoking execute(), and DEPENDENCY_NOT_RUNNING is not recorded
C21_DependencyCheck ==
    \A i \in active : (runs[i] = 1 /\ depLookup[i] # "none" /\ Admitted(i)) =>
        /\ cfg[i].depends_on
        /\ depLookup[i] = "none_running" =>
               /\ execInvoked[i] = 0
               /\ Settled(i) => state(lifecycle[i]) = "DEPENDENCY_NOT_RUNNING"
        /\ depLookup[i] \in {"running", "lookup_failed"} =>
               /\ pc[i] = "done" => execInvoked[i] = 1
               /\ state(lifecycle[i]) # "DEPENDENCY_NOT_RUNNING"

C21_Witness ==
    /\ depLookup["a"] = "lookup_failed"
    /\ pc["a"] = "done"
    /\ execInvoked["a"] = 1
    /\ state(lifecycle["a"]) = "COMPLETED"

\* C21 witness of the other branch: no dependency runs, nothing is executed
C21_WitnessNotRunning ==
    /\ depLookup["a"] = "none_running"
    /\ pc["a"] = "done"
    /\ execInvoked["a"] = 0
    /\ lifecycle["a"] = <<"CREATED", "RUNNING", "DEPENDENCY_NOT_RUNNING">>

\* the terminal states of an instance that never ran its work, and of one that did
UnexecutedStates == {"DEPENDENCY_NOT_RUNNING", "CANCELLED", "ERROR"}
ExecutedStates == {"COMPLETED", "FAILED", "STOPPED", "INTERRUPTED", "ERROR"}

\* what may follow the waiting states of a lifecycle (or of one still growing)
LifecycleTails ==
    {<<>>}
    \cup {<<t>> : t \in UnexecutedStates}
    \cup {<<r>> : r \in ExecutingStates}
    \cup {<<r, t>> : r \in ExecutingStates, t \in ExecutedStates}

\* lc is CREATED, then waiting states, then one of the tails
LifecycleShape(lc) ==
    /\ lc[1] = "CREATED"
    /\ \E w \in 1..Len(lc) :
           /\ \A k \in 2..w : is_waiting(lc[k])
           /\ SubSeq(lc, w + 1, Len(lc)) \in LifecycleTails

\* C22: every lifecycle is CREATED, waiting states, then either an unexecuted
\* terminal state with no RUNNING/TRIGGERED entry, or RUNNING/TRIGGERED and an
\* executed terminal state; one ending in DEPENDENCY_NOT_RUNNING or CANCELLED
\* holds no RUNNING or TRIGGERED
C22_LifecycleShapes ==
    \A i \in active :
        /\ LifecycleShape(lifecycle[i])
        /\ state(lifecycle[i]) \in {"DEPENDENCY_NOT_RUNNING", "CANCELLED"} => ~Admitted(i)

\* the current state of instance i was handed to the state observers
StateNotified(i) ==
    \E k \in 1..Len(notified[i]) : notified[i][k].lifecycle = lifecycle[i]

\* C23: when run() has finished, by returning or with an error, the current
\* state of the instance is terminal and was notified to the state observers
C23_FinishedIsTerminal ==
    \A i \in active :
        pc[i] = "done" => (is_terminal(state(lifecycle[i])) /\ StateNotified(i))

\* the terminal states of an expected non-completion
ExpectedNonCompletion == {"STOPPED", "INTERRUPTED", "CANCELLED", "DEPENDENCY_NOT_RUNNING"}

\* C24: an error leaves run() only after a terminal state was recorded, and
\* never when the instance ended as stopped, interrupted, cancelled or
\* dependency-not-running
C24_RaiseOnlyOnFault ==
    \A i \in active :
        (pc[i] = "done" /\ raised[i]) =>
            /\ is_terminal(state(lifecycle[i]))
            /\ state(lifecycle[i]) \notin ExpectedNonCompletion

\* C25: a stop() call on the backend, made at any point of its life, returns
\* without raising and leaves the stop flag set
C25_StopNeverRaises ==
    /\ ~kRaised
    /\ (kpc # "idle") => pStopped

\* C26: stop() on a backend whose child has started puts the poison message on
\* the queue, whatever the queue holds, and goes on to terminate the child
C26_StopPoisonsAndTerminates ==
    [][(kpc = "poison" /\ kpc' # "poison" /\ pProcess = "started") =>
           /\ pStopped
           /\ queue' = Append(queue, QueueStop)
           /\ kpc' = "terminate"]_vars

\* C29: the lifecycle read back from the history table is the one that was
\* stored: the same (state, timestamp) pairs in the same order
C29_RoundTrip ==
    \A k \in 1..Len(dbRead) : dbRead[k] = dbStored[k]

\* the observers of the pairs of seq, in order
ObserversOf(seq) == [k \in 1..Len(seq) |-> seq[k][2]]

\* C28: whatever registrations and deregistrations happen during a fan-out, the
\* observers it has invoked are the first ones of the lists it began with, in
\* their order, and when the loop has ended they are all of them, each once
C28_FanOutOverStableLists ==
    /\ fanPos <= Len(fanIter)
    /\ fanInvoked = ObserversOf(SubSeq(fanIter, 1, fanPos))
    /\ (~fanActive /\ fanIter # <<>>) => fanInvoked = ObserversOf(fanIter)

\* a fan-out over o1, o2 that completed although o2 was deregistered and o3
\* registered in front while it ran
C28_Witness ==
    /\ ~fanActive
    /\ fanInvoked = <<"o1", "o2">>
    /\ ObserversOf(gen_prioritized(self_state_observers, state_observers)) = <<"o3", "o1">>

\* C27: what a held snapshot shows, its lifecycle and its warning map, is what
\* create_info saw when it was taken, whatever the instance recorded since
C27_SnapshotIsCopy ==
    \A k \in 1..Len(snapshots) :
        /\ objLifecycle[snapshots[k].lifecycle] = snapshots[k].saw.lifecycle
        /\ WarningsDict(objWarnings[snapshots[k].warnings]) = snapshots[k].saw.warnings

\* a snapshot taken at CREATED with no warning, held while the instance ran,
\* completed and counted a warning
C27_Witness ==
    /\ Len(snapshots) >= 1
    /\ snapshots[1].saw.lifecycle = <<"CREATED">>
    /\ objLifecycle[snapshots[1].lifecycle] = <<"CREATED">>
    /\ objLifecycle[Live] = <<"CREATED", "RUNNING", "COMPLETED">>
    /\ objWarnings[Live]["disk-full"] = 1
    /\ WarningsDict(objWarnings[snapshots[1].warnings]) = snapshots[1].saw.warnings

\* the positions of run() between the decision to wait and the end of the wait
AboutToWait == {"sc_state_lock", "sc_set", "sc_notify", "sync_after"}
WaitingOrAboutTo(i) ==
    \/ pc[i] = "sync_wait"
    \/ sig[i] = "WAIT" /\ site[i] = "sync" /\ pc[i] \in AboutToWait

\* C30: once stop() or interrupt() has set its flag while the instance waits in
\* admission or is about to wait, run() eventually returns normally with CANCELLED
\* recorded and the backend never invoked
C30_StopUnblocksWait ==
    (stoppedOrInterrupted["a"] /\ WaitingOrAboutTo("a"))
        ~> (/\ pc["a"] = "done"
            /\ ~raised["a"]
            /\ state(lifecycle["a"]) = "CANCELLED"
            /\ execInvoked["a"] = 0)

\* the instance waited at PENDING, was stopped and left with CANCELLED
C30_Witness ==
    /\ pc["a"] = "done"
    /\ stoppedOrInterrupted["a"]
    /\ lifecycle["a"] = <<"CREATED", "PENDING", "CANCELLED">>
    /\ execInvoked["a"] = 0
    /\ ~raised["a"]

\* the positions of run() past a successful admission
PastAdmission == {"deps", "exec_call", "exec_run"}

\* C31: execute() is invoked only when the latest admission cycle of this run,
\* decided while holding the shared lock, found the stop flag unset and got
\* CONTINUE from the strategy; a wait always leads back to the top of the cycle;
\* after TERMINATE run() is left without execute() being invoked
C31_ExecuteOnlyAfterContinue ==
    /\ [](\A i \in Inst :
              /\ pc[i] \in PastAdmission => sig[i] = "CONTINUE"
              /\ sig[i] = "TERMINATE" => pc[i] \notin PastAdmission)
    /\ [][\A i \in Inst :
              /\ execInvoked'[i] # execInvoked[i] => sig[i] = "CONTINUE"
              /\ (pc[i] = "sync_decide" /\ pc'[i] # pc[i] /\ sig'[i] = "CONTINUE") =>
                     /\ ~stoppedOrInterrupted[i]
                     /\ glock = i
                     /\ consulted'[i]
              /\ (pc[i] = "sync_wait" /\ pc'[i] # pc[i]) => pc'[i] = "sync_enter"
              /\ (pc[i] = "sync_after" /\ pc'[i] # pc[i] /\ sig[i] = "TERMINATE") =>
                     /\ pc'[i] = "done"
                     /\ ~raised'[i]
                     /\ execInvoked'[i] = execInvoked[i]]_vars

\* execute() runs after a wait at PENDING was followed by a cycle that
\* answered CONTINUE
C31_Witness ==
    /\ pc["a"] = "exec_run"
    /\ execInvoked["a"] = 1
    /\ lifecycle["a"] = <<"CREATED", "PENDING", "RUNNING">>
    /\ sig["a"] = "CONTINUE"

\* C32: when execute() raised, the state the error declares (ERROR for a wrapped
\* exception) is recorded together with the error, the snapshot handed to the
\* state observers carries both, and run() returns without raising
C32_ExecuteErrorRecorded ==
    [][\A i \in Inst : site[i] = "exec_error" =>
          /\ (pc[i] = "sc_set" /\ pc'[i] # pc[i] /\ ~is_terminal(state(lifecycle[i]))) =>
                 /\ state(lifecycle'[i]) = execError[i].exec_state
                 /\ is_terminal(state(lifecycle'[i]))
                 /\ jobInfo'[i] = [state |-> execError[i].exec_state,
                                   lifecycle |-> lifecycle'[i],
                                   exec_error |-> execError[i]]
          /\ (pc[i] = "sc_store" /\ pc'[i] # pc[i]) =>
                 /\ pc'[i] = "sc_notify"
                 /\ jobInfo'[i] = jobInfo[i]
          /\ (pc[i] = "sc_notify" /\ pc'[i] # pc[i]) =>
                 notified'[i] = Append(notified[i], jobInfo[i])
          /\ (pc[i] # "done" /\ pc'[i] = "done") => ~raised'[i]]_vars

\* the number of "@" in a pattern, and the text before and after its first "@"
AtCount(pattern) == Cardinality({k \in 1..Len(pattern) : pattern[k] = "@"})
FirstAt(pattern) == CHOOSE k \in 1..Len(pattern) : pattern[k] = "@" /\ \A j \in 1..(k - 1) : pattern[j] # "@"
ComponentMatches(component, text, strat) ==
    component = <<>> \/ strategy(strat, text, component)

\* what the claim expects of one pattern: "J@I" needs both components to match,
\* a pattern without "@" needs the job id or the instance id to match it
PatternMatches(pattern, jid, strat) ==
    IF AtCount(pattern) = 1
    THEN /\ ComponentMatches(SubSeq(pattern, 1, FirstAt(pattern) - 1), jid.job_id, strat)
         /\ ComponentMatches(SubSeq(pattern, FirstAt(pattern) + 1, Len(pattern)),
                             jid.instance_id, strat)
    ELSE \/ ComponentMatches(pattern, jid.job_id, strat)
         \/ ComponentMatches(pattern, jid.instance_id, strat)

\* C33: a criterion parsed from "J@I" matches an id exactly when J matches the
\* job id and I the instance id, one parsed from a pattern without "@" when the
\* pattern matches either; an empty component matches anything; the compound
\* filter answers true for no criteria and otherwise when some criterion matches
C33_IdMatching ==
    /\ mPc \in {"parsed", "matched"} =>
           /\ Len(mCriteria) = Len(mPatterns)
           /\ \A k \in 1..Len(mPatterns) :
                  /\ AtCount(mPatterns[k]) <= 1
                  /\ mCriteria[k].match_both_ids = (AtCount(mPatterns[k]) = 1)
    /\ mPc = "matched" =>
           mResult = (\/ mPatterns = <<>>
                      \/ \E k \in 1..Len(mPatterns) :
                             PatternMatches(mPatterns[k], mJid, mStrategy))

\* "a@a" applied to the id (a, aa) with exact matching: the job id matches,
\* the instance id does not, the filter answers false
C33_Witness ==
    /\ mPc = "matched"
    /\ mPatterns = <<(<<"a", "@", "a">>)>>
    /\ mStrategy = "EXACT"
    /\ mJid = [job_id |-> <<"a">>, instance_id |-> <<"a", "a">>]
    /\ mResult = FALSE

\* C34: execute() is invoked at most once per instance, and not while the
\* lifecycle of the instance is terminal, however often run() is called
C34_ExecuteAtMostOnce ==
    \A i \in Inst :
        /\ execInvoked[i] <= 1
        /\ pc[i] = "exec_run" => ~is_terminal(state(lifecycle[i]))

\* a snapshot that carries an error shows the terminal state the error declares
StateMatchesError(info) ==
    info.exec_error # NoError =>
        (is_terminal(info.state) /\ info.state = info.exec_error.exec_state)

\* C35: every snapshot a create_info() call of another thread returns is
\* consistent between state and error
C35_SnapshotConsistent ==
    [][\A i \in Inst :
          (ipc[i] = "locked" /\ ipc'[i] = "idle") => StateMatchesError(create_info(i))]_vars

\* the threads: the one inside run() and the one inside create_info(), per instance
Threads == {"run", "info"} \X Inst

\* the thread that holds the lock thread t is blocked on: the thread inside
\* run() waits for the shared lock (lines 192, 237) or for its state lock
\* (line 236); a thread inside create_info() holds the state lock and waits for
\* nothing
NoThread == <<"none", "none">>
Blocker(t) ==
    IF t[1] # "run" THEN NoThread
    ELSE IF pc[t[2]] \in {"sync_enter", "sc_global_lock"} /\ glock # "free"
    THEN <<"run", glock>>
    ELSE IF pc[t[2]] = "sc_state_lock" /\ stateLock[t[2]] # "free"
    THEN <<stateLock[t[2]], t[2]>>
    ELSE NoThread

\* the threads t waits for, directly or through other threads, in at most n steps
RECURSIVE BlockersWithin(_, _)
BlockersWithin(t, n) ==
    IF n = 0 \/ Blocker(t) = NoThread THEN {}
    ELSE {Blocker(t)} \cup BlockersWithin(Blocker(t), n - 1)

\* C39: no thread waits, directly or through other threads, for a lock held by
\* a thread that waits for it
C39_NoLockCycle ==
    \A t \in Threads : t \notin BlockersWithin(t, Cardinality(Threads))

\* "b" holds its state lock and waits for the shared lock, which "a" holds in
\* admission while it waits for its own state lock, held by a create_info() call
C39_Witness ==
    /\ glock = "a"
    /\ pc["a"] = "sc_state_lock"
    /\ stateLock["a"] = "info"
    /\ pc["b"] = "sc_global_lock"
    /\ stateLock["b"] = "run"
    /\ <<"info", "a">> \in BlockersWithin(<<"run", "b">>, Cardinality(Threads))

\* C36: a _state_change call whose state is rejected (same state, or lifecycle
\* already terminal) leaves lifecycle, exec error, warnings and observer lists
\* as they were, and hands nothing to persistence or to the observers
C36_RejectedRecordChangesNothing ==
    [][\A i \in Inst :
          /\ (pc[i] # "sc_state_lock" /\ pc'[i] = "sc_state_lock"
                  /\ ~(newState'[i] # state(lifecycle[i]) /\ ~is_terminal(state(lifecycle[i])))) =>
                 execError'[i] = execError[i]
          /\ (pc[i] = "sc_set" /\ pc'[i] # "sc_set"
                  /\ ~(newState[i] # state(lifecycle[i]) /\ ~is_terminal(state(lifecycle[i])))) =>
                 /\ lifecycle'[i] = lifecycle[i]
                 /\ execError'[i] = execError[i]
                 /\ notified'[i] = notified[i]
                 /\ stored'[i] = stored[i]
                 /\ pc'[i] \notin {"sc_store", "sc_notify"}
                 /\ UNCHANGED <<warnVars, obsVars>>]_vars

\* the observers a registry holds
Holds(registry) == {registry[k][2] : k \in 1..Len(registry)}

\* C37: once the concurrent registrations and deregistrations have returned,
\* the registry holds every observer that was registered and not deregistered
C37_NoRegistrationLost ==
    (\A t \in Registrars : rpc[t] = "done") =>
        \A t \in Registrars :
            (/\ rop[t].kind = "register"
             /\ \A u \in Registrars :
                    ~(rop[u].kind = "deregister" /\ rop[u].observer = rop[t].observer))
                => rop[t].observer \in Holds(state_observers)

\* the counts the observers received, with how often each was received
TimesDelivered(k) == Cardinality({j \in 1..Len(wDelivered) : wDelivered[j] = k})

\* C38: once n concurrent add_warning calls with one name have returned, the
\* observers have received each count 1..n exactly once and the warning map
\* holds n for the name
C38_CountsOnceEach ==
    (\A t \in WarnThreads : wpc[t] = "done") =>
        /\ wCounter = MaxThreads
        /\ \A k \in 1..MaxThreads : TimesDelivered(k) = 1

====
